---- MODULE Spec2Model ----
(***************************************************************************)
(* The deployment pipeline of the WebDeploy backend: the orchestrator run  *)
(* (services/pipeline_orchestrator.py), the persistence layer it writes    *)
(* (db/crud.py), the submission route (api/routes/deployments.py) and the  *)
(* startup recovery and stale-deployment watchdog (main.py).               *)
(*                                                                         *)
(* Everything runs on one asyncio event loop, and the persistence calls    *)
(* are synchronous: the code a task executes between two awaits is one     *)
(* action.  A run is suspended only inside a step handler.                 *)
(*                                                                         *)
(* A timestamp is kept as a clock: the time elapsed since it was taken,    *)
(* which is all the program computes from it (now - started_at, and the    *)
(* deadline of wait_for).  Clocks stop at ClockCap, from where on no      *)
(* comparison of the program changes.                                      *)
(*                                                                         *)
(* Assumed: one process serves the collection at a time, and the calls of  *)
(* the persistence layer do not raise.                                     *)
(*                                                                         *)
(* The second part is the provisioning of the cloud resources of a website *)
(* (infra/demo_deployer.py, infra/prod_deployer.py,                        *)
(* infra/cloudrun_deployer.py) and the deletion route                      *)
(* (api/routes/deployments.py), under the specification InfraSpec: each    *)
(* deployment on record is provisioned at most once and deleted at most    *)
(* once, one after the other, while the other deployments do the same.     *)
(* ProdSpec is the Prod provisioner alone, for one deployment, under every *)
(* setting of its two flags.                                               *)
(*                                                                         *)
(* The third part is the wait on an operation handle                       *)
(* (infra/gcp_helpers.py, infra/cloudrun_deployer.py), under WaitSpec, and *)
(* the fourth the streaming of the log messages to the clients             *)
(* (api/dependencies.py, api/routes/websocket.py), under LogSpec.  The     *)
(* parts share no state: an action of one leaves the variables of the      *)
(* others as they are.                                                     *)
(*                                                                         *)
(* Two further specifications are over the deployments collection of the   *)
(* first part, with a persistence layer that can fail: WatchSpec is the    *)
(* watchdog task alone (main.py), whose cycles can raise, and PurgeSpec    *)
(* the deletion route next to the runs of the deployments it deletes       *)
(* (api/routes/deployments.py, db/crud.py).                                *)
(***************************************************************************)
EXTENDS Integers, Sequences, FiniteSets, TLC

\* ---------------------------------------------------------------- bounds

\* Deployment ids the submission route can hand out (uuid4, never reused).
MaxDeployments == 2
\* Resumptions of a run the event loop can still execute once the run's
\* deadline is due, before the timeout callback cancels it.
MaxOverdueResumes == 1

\* Settings.PIPELINE_MAX_TIMEOUT_SECONDS, the pipeline deadline and the
\* watchdog ceiling, in clock ticks.
PIPELINE_MAX_TIMEOUT_SECONDS == 1
ClockCap == PIPELINE_MAX_TIMEOUT_SECONDS + 1

Deployments == 1..MaxDeployments

\* ----------------------------------------------------------------- enums

QUEUED == "queued"
RUNNING == "running"
SUCCESS == "success"
FAILED == "failed"
DeploymentStatus == {QUEUED, RUNNING, SUCCESS, FAILED}

\* Fault: a step list with Upload ahead of Infra.
PIPELINE_STEPS_upload_first ==
    <<"EXTRACT", "AI_INSPECT", "AI_FIX", "BUILD", "VERIFY", "UPLOAD", "INFRA", "NOTIFY">>
\* _PIPELINE_STEPS: the steps in the order the loop takes them.
PIPELINE_STEPS ==
    <<"EXTRACT", "AI_INSPECT", "AI_FIX", "BUILD", "VERIFY", "INFRA", "UPLOAD", "NOTIFY">>
PipelineStep == {PIPELINE_STEPS[i] : i \in 1..Len(PIPELINE_STEPS)}
NOTIFY == "NOTIFY"

StepStatus == {"pending", "running", "completed", "failed", "skipped"}

\* Python's None, for a string field, a timestamp field and the error text.
None == "None"
NoTime == <<>>
\* datetime.now(): a clock that starts at 0; Age(ts) is the time since then.
Now == <<0>>
Age(ts) == ts[1]
Older(ts) == IF ts = NoTime \/ Age(ts) >= ClockCap THEN ts ELSE <<Age(ts) + 1>>
\* A timestamp the program writes and never reads.
Stamp == <<"set">>
NoError == [kind |-> "none", step |-> None, secs |-> 0]
\* str(exc) of the exception the handler of `step` raised.
StepError(step) == [kind |-> "step", step |-> step, secs |-> 0]
TimeoutError == [kind |-> "pipeline_timeout", step |-> None, secs |-> PIPELINE_MAX_TIMEOUT_SECONDS]
WatchdogError(elapsed, step) == [kind |-> "watchdog", step |-> step, secs |-> elapsed]
InterruptedError(step) == [kind |-> "interrupted", step |-> step, secs |-> 0]
UnexpectedError(step) == [kind |-> "unexpected", step |-> step, secs |-> 0]

\* The result URL the provisioner of deployment d returns.
ResultUrl(d) == <<"url", d>>
NoUrl == <<>>

\* ------------------------------------------------------------- variables

VARIABLES
    phase,       \* the process: "down" (not started, or crashed) or "serving"
    db,          \* the deployments collection: document id -> document
    run,         \* the orchestrator task of each deployment id (in memory)
    records,     \* the collection as the deletion route reads it: id -> mode, website
    resources,   \* the resources of the websites that exist in the cloud project
    url_map,     \* the shared URL map of the demo load balancer
    task,        \* the provisioner call or deletion request of each deployment id
    settings,    \* the provisioning flags of the configuration in force
    wait,        \* the wait on an operation handle that is in progress
    subscribers, \* _ws_subscribers: deployment id -> the queues registered
    ready,       \* the callbacks handed to the event loop, oldest first
    listener,    \* the log stream connection of each client, with its queue
    published,   \* the messages the log callbacks were given, per deployment id
    watchdog,    \* the watchdog task, and the errors it has logged
    logs,        \* the logs collection: the deployment ids it holds entries of
    deletion     \* the deletion request of each deployment id

vars == <<phase, db, run, records, resources, url_map, task, settings,
          wait, subscribers, ready, listener, published,
          watchdog, logs, deletion>>
watchVars == <<watchdog>>
purgeVars == <<logs, deletion>>
pipeVars == <<phase, db, run>>
infraVars == <<records, resources, url_map, task, settings>>
logVars == <<subscribers, ready, listener, published>>

\* ----------------------------------------------------------- persistence

NoneOf(f) ==
    CASE f \in {"started_at", "completed_at"} -> NoTime
      [] f = "error_message" -> NoError
      [] f = "result_url" -> NoUrl
      [] OTHER -> None

\* Fault: a submission that stores the deployment as running already.
create_deployment_running ==
    [status |-> RUNNING,
     current_step |-> None,
     steps_status |-> [s \in PipelineStep |-> "pending"],
     result_url |-> NoUrl,
     error_message |-> NoError,
     started_at |-> NoTime,
     completed_at |-> NoTime]
\* Fault: a submission that stores no step map.
create_deployment_nosteps ==
    [status |-> QUEUED,
     current_step |-> None,
     steps_status |-> <<>>,
     result_url |-> NoUrl,
     error_message |-> NoError,
     started_at |-> NoTime,
     completed_at |-> NoTime]
\* crud.create_deployment: the document a submission stores.
create_deployment ==
    [status |-> QUEUED,
     current_step |-> None,
     steps_status |-> [s \in PipelineStep |-> "pending"],
     result_url |-> NoUrl,
     error_message |-> NoError,
     started_at |-> NoTime,
     completed_at |-> NoTime]

\* crud.update_deployment_status: only the arguments that are not None are
\* written; `updates` maps argument names to values.
update_deployment_status(doc, updates) ==
    [f \in DOMAIN doc |->
        IF f \in DOMAIN updates /\ updates[f] # NoneOf(f) THEN updates[f] ELSE doc[f]]

\* json.loads of the stored steps_status; an absent or empty field gives {},
\* the map with no key, which is how the absent field is represented here.
load_steps(raw) == [s \in DOMAIN raw |-> raw[s]]

\* crud.update_step_status: read the map, set one key, write it back.
update_step_status(doc, step, step_status) ==
    LET steps == load_steps(doc.steps_status)
    IN  [doc EXCEPT !.steps_status =
            [s \in DOMAIN steps \cup {step} |-> IF s = step THEN step_status ELSE steps[s]]]

\* Fault: only the running steps are marked, pending ones are left.
mark_steps_running_only(steps) ==
    [s \in DOMAIN steps |-> IF steps[s] = "running" THEN "failed" ELSE steps[s]]
\* The loop over steps.items() that recovery and watchdog both have: running
\* becomes failed, pending becomes skipped, the rest is kept.
mark_steps(steps) ==
    [s \in DOMAIN steps |->
        CASE steps[s] = "running" -> "failed"
          [] steps[s] = "pending" -> "skipped"
          [] OTHER -> steps[s]]

\* Fault: recovery that queries the running deployments only.
recover_selects_running(doc) == doc.status = RUNNING
\* _recover_stale_deployments: the documents its two queries select.
recover_selects(doc) == doc.status \in {RUNNING, QUEUED}

\* Fault: recovery that leaves the step map as it was.
recover_doc_nosteps(doc) ==
    [doc EXCEPT !.status = FAILED,
                !.error_message = InterruptedError(doc.current_step),
                !.completed_at = Stamp]
\* _recover_stale_deployments: the update of one stale document.
recover_doc(doc) ==
    [doc EXCEPT !.status = FAILED,
                !.steps_status = mark_steps(load_steps(doc.steps_status)),
                !.error_message = InterruptedError(doc.current_step),
                !.completed_at = Stamp]

\* Fault: a watchdog that fails every running deployment, whatever its age.
watchdog_selects_any_age(doc) ==
    /\ doc.status = RUNNING
    /\ doc.started_at # NoTime
\* _stale_deployment_watchdog: the documents a cycle fails, those of the
\* query (status running) with a start time and elapsed > max_age.
watchdog_selects(doc) ==
    /\ doc.status = RUNNING
    /\ doc.started_at # NoTime
    /\ Age(doc.started_at) > PIPELINE_MAX_TIMEOUT_SECONDS

\* _stale_deployment_watchdog: the update of one document past the ceiling.
watchdog_doc(doc) ==
    [doc EXCEPT !.status = FAILED,
                !.steps_status = mark_steps(load_steps(doc.steps_status)),
                !.error_message = WatchdogError(Age(doc.started_at), doc.current_step),
                !.completed_at = Stamp]

\* ------------------------------------------------------------------ runs

\* A run: where the task is (pc), the loop index, failed_step (failure_error
\* is StepError(failed_step)), ctx.result_url, the deadline of wait_for as a
\* clock, the resumptions executed with the deadline due, and what the run did
\* to its collaborators: handler invocations per step, the calls of the
\* Notification collaborator with their outcome, and the calls of _cleanup.
NoRun ==
    [pc |-> "none", idx |-> 0, failed_step |-> None, result_url |-> NoUrl,
     timer |-> NoTime, resumes |-> 0,
     invoked |-> [s \in PipelineStep |-> 0],
     notified |-> <<>>, outcome |-> "none", cleaned |-> 0]

StepOf(r) == PIPELINE_STEPS[r.idx]

\* Whether the handler of a step has an await at which the task can be
\* suspended: _step_ai_fix has none.  (A handler that returns before its
\* first await behaves as one that is resumed at once.)
CanSuspend(step) == step # "AI_FIX"

\* Fault: _step_notify without its try/except.
MayRaise_notify(step) == step # "AI_FIX"
\* Whether an exception can leave the handler of a step: _step_ai_fix only
\* logs, and _step_notify catches what the Notification collaborator raises.
MayRaise(step) == step \notin {"AI_FIX", NOTIFY}

\* Fault: a loop without the skip after a failure.
ShouldExecute_always(step, failed_step) == TRUE
\* The loop's test at the top of each iteration: Notify always executes,
\* another step only while no step has failed.
ShouldExecute(step, failed_step) == step = NOTIFY \/ failed_step = None

\* Fault: a Notify step that is not told about the failure.
NotifyArgs_success(r) ==
    [success |-> TRUE, error_message |-> NoError, live_url |-> r.result_url]
\* What _step_notify hands to EmailService.send_notification.
NotifyArgs(r) ==
    IF r.failed_step # None
    THEN [success |-> FALSE, error_message |-> StepError(r.failed_step), live_url |-> NoUrl]
    ELSE [success |-> TRUE, error_message |-> NoError, live_url |-> r.result_url]

\* The loop, for a step that is not executed: it is recorded SKIPPED.
SkipStep(st) ==
    [doc |-> update_step_status(st.doc, StepOf(st.r), "skipped"),
     r |-> [st.r EXCEPT !.idx = @ + 1]]

\* _execute_step up to the call of the handler: the step is recorded
\* RUNNING, current_step is stored, the handler is called.  _step_notify
\* returns at once without recipients, else calls the collaborator.
BeginStep(st, recipients) ==
    LET step == StepOf(st.r)
        doc1 == update_step_status(st.doc, step, "running")
        doc2 == update_deployment_status(doc1, [current_step |-> step])
    IN  [doc |-> doc2,
         r |-> [st.r EXCEPT
                  !.pc = "handler",
                  !.invoked[step] = @ + 1,
                  !.notified = IF step = NOTIFY /\ recipients
                               THEN Append(@, NotifyArgs(st.r)) ELSE @,
                  !.outcome = IF step # NOTIFY THEN @
                              ELSE IF recipients THEN "called" ELSE "skipped"]]

\* _execute_step after the handler returned: the step is recorded COMPLETED.
\* _step_infra has stored the provisioner's URL in the context.
CompleteStep(st, url) ==
    [doc |-> update_step_status(st.doc, StepOf(st.r), "completed"),
     r |-> [st.r EXCEPT
              !.idx = @ + 1,
              !.result_url = IF StepOf(st.r) = "INFRA" THEN url ELSE @]]

\* The except clause of the loop: failed_step and failure_error are set, the
\* step is recorded FAILED and the error text is stored.
FailStep(st) ==
    LET step == StepOf(st.r)
        doc1 == update_step_status(st.doc, step, "failed")
        doc2 == update_deployment_status(doc1, [error_message |-> StepError(step)])
    IN  [doc |-> doc2, r |-> [st.r EXCEPT !.failed_step = step, !.idx = @ + 1]]

\* Fault: a final update that ignores failed_step.
FinalUpdates_success(failed_step, result_url) ==
    [status |-> SUCCESS, result_url |-> result_url, completed_at |-> Stamp]
\* The arguments of the final update_deployment_status after the loop.
FinalUpdates(failed_step, result_url) ==
    IF failed_step # None
    THEN [status |-> FAILED, completed_at |-> Stamp]
    ELSE [status |-> SUCCESS, result_url |-> result_url, completed_at |-> Stamp]

\* Fault: the end of the loop without the finally clause.
Finish_nocleanup(st) ==
    [doc |-> update_deployment_status(st.doc,
                FinalUpdates(st.r.failed_step, st.r.result_url)),
     r |-> [st.r EXCEPT !.pc = "done", !.timer = NoTime]]
\* After the loop: the final status, then the finally clause (_cleanup); the
\* task ends and wait_for returns.
Finish(st) ==
    [doc |-> update_deployment_status(st.doc,
                FinalUpdates(st.r.failed_step, st.r.result_url)),
     r |-> [st.r EXCEPT !.pc = "done", !.timer = NoTime, !.cleaned = @ + 1]]

\* The catch-all of _run_pipeline, for an exception raised outside the try of
\* the loop (the Notify step is executed outside it), then the finally clause.
CatchAll(st) ==
    [doc |-> update_deployment_status(st.doc,
                [status |-> FAILED,
                 error_message |-> UnexpectedError(StepOf(st.r)),
                 completed_at |-> Stamp]),
     r |-> [st.r EXCEPT !.pc = "done", !.timer = NoTime, !.cleaned = @ + 1,
                        !.outcome = "raised"]]

\* The for loop of _run_pipeline from its current index until the task is
\* suspended in a handler or the run ends.  (st ranges over the one-element
\* set {st0}, which evaluates the state the loop starts from once.)
RECURSIVE RunLoop(_, _)
RunLoop(st0, recipients) ==
    CHOOSE out \in
        { IF st.r.idx > Len(PIPELINE_STEPS) THEN Finish(st)
          ELSE IF ~ShouldExecute(StepOf(st.r), st.r.failed_step)
               THEN RunLoop(SkipStep(st), recipients)
          ELSE IF CanSuspend(StepOf(st.r)) THEN BeginStep(st, recipients)
          ELSE RunLoop(CompleteStep(BeginStep(st, recipients), NoUrl), recipients)
          : st \in {st0} } : TRUE

\* run() arms the deadline with wait_for; _run_pipeline marks the deployment
\* RUNNING with its start time and enters the loop.
StartRun(st, recipients) ==
    RunLoop([doc |-> update_deployment_status(st.doc,
                        [status |-> RUNNING, started_at |-> Now]),
             r |-> [st.r EXCEPT !.idx = 1, !.timer = Now]], recipients)

\* Fault: a timeout clause that stores no error text.
TimeoutUpdates_nomessage ==
    [status |-> FAILED, completed_at |-> Stamp]
\* Fault: a timeout clause that does not write the status.
TimeoutUpdates_nostatus ==
    [error_message |-> TimeoutError, completed_at |-> Stamp]
\* The arguments of update_deployment_status in run()'s TimeoutError clause.
TimeoutUpdates ==
    [status |-> FAILED, error_message |-> TimeoutError, completed_at |-> Stamp]

\* The deadline of wait_for is due.
Due(r) == r.timer # NoTime /\ Age(r.timer) >= PIPELINE_MAX_TIMEOUT_SECONDS

\* A suspended task is resumed by the loop; once its deadline is due, at most
\* MaxOverdueResumes resumptions run before the timeout callback does.
CanResume(r) == Due(r) => r.resumes < MaxOverdueResumes

Resumed(r) == [r EXCEPT !.resumes = IF Due(r) THEN @ + 1 ELSE @]

\* ---------------------------------------------------------- provisioning
\*
\* The provisioners (infra/demo_deployer.py, infra/prod_deployer.py,
\* infra/cloudrun_deployer.py) and the deletion route act on the cloud
\* control plane.  Each of their blocking closures runs in an executor
\* thread; the calls a closure makes on the resources of its own website are
\* one step, the read and the patch of the shared URL map are two, since the
\* closures of other websites run in between.
\*
\* A call of the control plane answers "ok", "notfound" when the resource is
\* absent, "conflict" when a create finds the resource present, "error" for
\* any other failure, and "precondition_failed" for a patch of the URL map
\* that carries a fingerprint other than the current one (the body the
\* closures send is the map as they read it, fingerprint included, and the
\* fingerprint is a hash of the contents).

MaxWebsites == 2
Websites == 1..MaxWebsites
\* The longest list of path rules the demo path matcher holds at the start.
MaxInitialRules == 1

DEMO == "demo"
PROD == "prod"
CLOUDRUN == "cloudrun"
DeploymentMode == {DEMO, PROD, CLOUDRUN}

DEMO_DOMAIN == "digitaldatatest.com"
PROD_AUTO_CREATE_DNS_ZONE == TRUE
PROD_AUTO_CREATE_SSL_CERT == FALSE

\* The flags of Settings that the Prod provisioner reads; each can be set
\* in the environment of the process.
Settings ==
    [PROD_AUTO_CREATE_DNS_ZONE : BOOLEAN, PROD_AUTO_CREATE_SSL_CERT : BOOLEAN]

\* The flags as config.py sets them.
DefaultSettings ==
    [PROD_AUTO_CREATE_DNS_ZONE |-> PROD_AUTO_CREATE_DNS_ZONE,
     PROD_AUTO_CREATE_SSL_CERT |-> PROD_AUTO_CREATE_SSL_CERT]

\* A resource of a website is named after its kind, its mode and the
\* website (get_bucket_name, get_backend_bucket_name, safe_name).
Res(kind, mode, website_name) == <<kind, mode, website_name>>

Call(verb, kind, resp) == <<verb, kind, resp>>

Responses(present) == IF present THEN {"ok", "error"} ELSE {"notfound", "error"}

\* ---- the shared URL map of the demo load balancer

\* /{name} and /{name}/*
desired_paths(website_name) == {<<website_name, "">>, <<website_name, "/*">>}

\* A path of a website that is not deployed through this backend.
OtherPath == <<0, "">>
LegacyService == <<"backendServices", 0>>
bb_self_link(website_name) == <<"backendBuckets", website_name>>

SeqsUpTo(S, n) == UNION {[1..k -> S] : k \in 0..n}

InitialRules ==
    {[paths |-> ps, service |-> LegacyService] :
        ps \in {qs \in SUBSET (desired_paths(1) \cup {OtherPath}) :
                    qs # {} /\ Cardinality(qs) <= 2}}

InitialPathRules == SeqsUpTo(InitialRules, MaxInitialRules)

InitialUrlMap(rules) ==
    [hostRules |-> <<[hosts |-> {"other.example"}, pathMatcher |-> "other-matcher"],
                     [hosts |-> {DEMO_DOMAIN}, pathMatcher |-> "demo-matcher"]>>,
     pathMatchers |-> <<[name |-> "other-matcher",
                         pathRules |-> <<[paths |-> {OtherPath},
                                          service |-> LegacyService]>>],
                        [name |-> "demo-matcher", pathRules |-> rules]>>]

\* The path matcher of the first host rule that lists the demo domain.
target_matcher_name(m) ==
    IF \E i \in DOMAIN m.hostRules : DEMO_DOMAIN \in m.hostRules[i].hosts
    THEN LET i == CHOOSE i \in DOMAIN m.hostRules :
                    /\ DEMO_DOMAIN \in m.hostRules[i].hosts
                    /\ \A j \in 1..(i - 1) : DEMO_DOMAIN \notin m.hostRules[j].hosts
         IN  m.hostRules[i].pathMatcher
    ELSE None

\* The index of the first path matcher of that name, 0 when there is none.
target_matcher(m, name) ==
    IF \E i \in DOMAIN m.pathMatchers : m.pathMatchers[i].name = name
    THEN CHOOSE i \in DOMAIN m.pathMatchers :
            /\ m.pathMatchers[i].name = name
            /\ \A j \in 1..(i - 1) : m.pathMatchers[j].name # name
    ELSE 0

existing_paths(rules) == UNION {rules[i].paths : i \in DOMAIN rules}

cleaned_rules_none(rules, paths) == <<>>

\* The rules that list none of the paths, in their order.
cleaned_rules(rules, paths) ==
    SelectSeq(rules, LAMBDA rule : rule.paths \cap paths = {})

paths_present_never(m, website_name) == FALSE

\* _ensure_url_map_path_rule: both paths are listed by rules of the matcher.
paths_present(m, website_name) ==
    LET i == target_matcher(m, target_matcher_name(m))
    IN  i # 0 /\ desired_paths(website_name) \subseteq
                    existing_paths(m.pathMatchers[i].pathRules)

\* _ensure_url_map_path_rule: the body of the patch.
ensure_body(m, website_name) ==
    LET i == target_matcher(m, target_matcher_name(m))
    IN  [m EXCEPT !.pathMatchers[i].pathRules =
            Append(cleaned_rules(@, desired_paths(website_name)),
                   [paths |-> desired_paths(website_name),
                    service |-> bb_self_link(website_name)])]

\* _remove_url_map_path_rule: the body of the patch.
remove_body(m, website_name) ==
    LET i == target_matcher(m, target_matcher_name(m))
    IN  IF i = 0 THEN m
        ELSE [m EXCEPT !.pathMatchers[i].pathRules =
                cleaned_rules(@, desired_paths(website_name))]

patch_response_unconditional(current, snapshot, resp) == resp

\* urlMaps.patch: applied when the fingerprint of the body is current.
patch_response(current, snapshot, resp) ==
    IF snapshot # current THEN "precondition_failed" ELSE resp

\* ---- the steps of the provisioners

DemoDeploySteps == <<"storage_bucket", "backend_bucket", "url_map_path_rule">>

ProdDeploySteps_proxies_first ==
    <<"static_ip", "http_target_proxy", "http_forwarding_rule",
      "storage_bucket", "backend_bucket", "url_map">>
    \o (IF settings.PROD_AUTO_CREATE_DNS_ZONE
        THEN <<"dns_zone", "dns_a_record", "dns_cname_record">> ELSE <<>>)

\* The stages of ProdDeployer.deploy under the flags in force.
ProdDeploySteps ==
    <<"static_ip", "storage_bucket", "backend_bucket", "url_map">>
    \o (IF settings.PROD_AUTO_CREATE_SSL_CERT
        THEN <<"ssl_certificate", "https_target_proxy">> ELSE <<>>)
    \o <<"http_target_proxy">>
    \o (IF settings.PROD_AUTO_CREATE_SSL_CERT
        THEN <<"https_forwarding_rule">> ELSE <<>>)
    \o <<"http_forwarding_rule">>
    \o (IF settings.PROD_AUTO_CREATE_DNS_ZONE
        THEN <<"dns_zone", "dns_a_record", "dns_cname_record">> ELSE <<>>)

CloudRunDeploySteps_policy_first ==
    <<"service_exists", "service_apply", "set_iam_policy", "wait_operation",
      "get_service">>

\* The awaited calls of CloudRunDeployer.deploy, in their order.
CloudRunDeploySteps ==
    <<"service_exists", "service_apply", "wait_operation", "set_iam_policy",
      "get_service">>

DeploySteps(mode) ==
    CASE mode = DEMO -> DemoDeploySteps
      [] mode = PROD -> ProdDeploySteps
      [] mode = CLOUDRUN -> CloudRunDeploySteps

DemoDeleteSteps_reversed == <<"storage_bucket", "backend_bucket", "url_map_path_rule">>

DemoDeleteSteps == <<"url_map_path_rule", "backend_bucket", "storage_bucket">>

CloudRunDeleteSteps == <<"service", "images">>

DeleteSteps(mode) ==
    CASE mode = DEMO -> DemoDeleteSteps
      [] mode = CLOUDRUN -> CloudRunDeleteSteps
      [] OTHER -> <<>>

has_teardown_demo_only(mode) == mode = DEMO

\* routes.deployments.delete_deployment: the modes whose branch calls the
\* delete of a provisioner.
has_teardown(mode) == mode \in {DEMO, CLOUDRUN}

\* The lookups whose failure the closure takes for absence (`except
\* Exception: pass`, and the blind addition of _ensure_dns_record).
lookup_error_means_absent(kind) ==
    kind \in {"storage_bucket", "dns_a_record", "dns_cname_record"}

ensure_resource_recreates(kind, present, get, ins) ==
    [calls |-> <<Call("get", kind, get), Call("create", kind, ins)>>,
     created |-> ins = "ok", raised |-> ins # "ok"]

\* One _ensure_* closure: look the resource up, create it when it is absent.
ensure_resource(kind, present, get, ins) ==
    IF get = "ok"
    THEN [calls |-> <<Call("get", kind, get)>>, created |-> FALSE, raised |-> FALSE]
    ELSE IF get = "error" /\ ~lookup_error_means_absent(kind)
    THEN [calls |-> <<Call("get", kind, get)>>, created |-> FALSE, raised |-> TRUE]
    ELSE LET resp == IF present THEN "conflict" ELSE ins
         IN  [calls |-> <<Call("get", kind, get), Call("create", kind, resp)>>,
              created |-> resp = "ok", raised |-> resp # "ok"]

delete_raises_notfound(kind, resp) == resp # "ok" /\ kind # "images"

\* The delete closures re-raise what is not a not-found answer; delete() of
\* the Cloud Run provisioner reports a failed image delete and goes on.
delete_raises(kind, resp) == resp = "error" /\ kind # "images"

\* crud.delete_deployment
delete_deployment(rs, d) == [e \in DOMAIN rs \ {d} |-> rs[e]]

\* ---- tasks
\*
\* A task is one call of deploy() (the Infra step of a run) or one deletion
\* request.  snapshot and body hold the URL map a closure read and the body
\* it will patch (<<>> outside such a closure); calls lists the calls the
\* task has made on the control plane, with their answers.

NoTask ==
    [op |-> "none", mode |-> None, website_name |-> 0, pc |-> 0,
     calls |-> <<>>, snapshot |-> <<>>, body |-> <<>>, exists |-> FALSE,
     result |-> None, teardown |-> "none", errors_list |-> <<>>,
     response |-> [deleted |-> FALSE, warnings |-> <<>>], second |-> FALSE,
     url |-> <<>>]

Deploying(t) == t.op = "deploy" /\ t.result = None
Deleting(t) == t.op = "delete" /\ ~t.response.deleted

DeployStep(t) == DeploySteps(t.mode)[t.pc]
DeleteStep(t) == DeleteSteps(t.mode)[t.pc]

\* The url of the result: https://{DEMO_DOMAIN}/{website_name}/ for Demo,
\* the website's domain for Prod, the uri of the service for Cloud Run.
result_url(mode, website_name) ==
    CASE mode = DEMO -> <<"https", DEMO_DOMAIN, website_name>>
      [] mode = PROD -> <<"https", <<"domain", website_name>>>>
      [] mode = CLOUDRUN -> <<"uri", website_name>>

\* deploy() returns DeploymentResult(success=True) after its last step.
deploy_next(t) ==
    IF t.pc = Len(DeploySteps(t.mode))
    THEN [t EXCEPT !.result = "success", !.snapshot = <<>>, !.body = <<>>,
                   !.url = <<result_url(t.mode, t.website_name)>>]
    ELSE [t EXCEPT !.pc = @ + 1, !.snapshot = <<>>, !.body = <<>>]

\* The except clause of deploy(): DeploymentResult(success=False).
deploy_failed(t) == [t EXCEPT !.result = "failed", !.snapshot = <<>>, !.body = <<>>]

cleanup_error(mode) == IF mode = DEMO THEN "Demo cleanup error" ELSE "Cloud Run cleanup error"

\* The deletion route after the teardown: crud.delete_deployment and the
\* response, with the warnings when the teardown raised.
route_returns(t) ==
    [t EXCEPT !.snapshot = <<>>, !.body = <<>>,
              !.response = [deleted |-> TRUE, warnings |-> t.errors_list]]

\* Fault: a route that lets the error of delete() propagate.
teardown_raised_propagates(t) ==
    [t EXCEPT !.teardown = "raised", !.snapshot = <<>>, !.body = <<>>]
\* delete() of the provisioner raises: the route appends the error.
teardown_raised(t) ==
    route_returns([t EXCEPT !.teardown = "raised",
                            !.errors_list = Append(@, cleanup_error(t.mode))])

\* A step of delete() is over: the next one, or delete() returns.
delete_next(t) ==
    IF t.pc = Len(DeleteSteps(t.mode))
    THEN route_returns([t EXCEPT !.teardown = "returned"])
    ELSE [t EXCEPT !.pc = @ + 1, !.snapshot = <<>>, !.body = <<>>]

\* ------------------------------------------------------ operation polling
\*
\* wait_for_global_operation (Compute Engine) and _wait_for_operation
\* (Cloud Run) poll an operation handle until it is done or the deadline
\* has passed.  Time is counted in tenths of a second from the call; the
\* back-off keeps the tenths and drops the rest.  Every poll is answered
\* with an operation resource, after a latency of the remote's choosing.

MaxPollLatency == 1

GLOBAL_OPERATION == "globalOperations"
RUN_OPERATION == "operations"
Pollers == {GLOBAL_OPERATION, RUN_OPERATION}

\* The timeouts the callers pass: the default of both functions, and the
\* one the orchestrator passes for the CDN cache invalidation.
Timeouts(poller) ==
    IF poller = GLOBAL_OPERATION THEN {1200, 3000} ELSE {3000}

initial_poll_interval(poller) ==
    IF poller = GLOBAL_OPERATION THEN 20 ELSE 50

max_poll_interval(poller) ==
    IF poller = GLOBAL_OPERATION THEN 100 ELSE 150

Min(a, b) == IF a <= b THEN a ELSE b

\* poll_interval = min(poll_interval * 1.3, cap)
next_poll_interval(poller, poll_interval) ==
    Min((poll_interval * 13) \div 10, max_poll_interval(poller))

\* What the remote reports of an operation: "error" is <<>> when the key
\* is absent and <<messages>> when it is there, the messages in their order.
OperationErrors == {<<>>, <<<<>>>>, <<<<"m1">>>>, <<<<"m1", "m2">>>>}
RunErrors == {<<>>, <<<<"m1">>>>}

OperationResources(poller) ==
    IF poller = GLOBAL_OPERATION
    THEN [status : {"PENDING", "RUNNING", "DONE"}, done : {FALSE},
          error : OperationErrors]
    ELSE [status : {None}, done : BOOLEAN, error : RunErrors]

\* result.get("status") == "DONE", result.get("done")
is_done(poller, result) ==
    IF poller = GLOBAL_OPERATION THEN result.status = "DONE" ELSE result.done

\* The messages the RuntimeError carries.
error_messages(result) == result.error[1]

poll_outcome_returns_errors(poller, result, now, deadline) ==
    IF is_done(poller, result) THEN "return"
    ELSE IF now >= deadline THEN "TimeoutError" ELSE "sleep"

\* One round of the loop after the poll was answered.
poll_outcome(poller, result, now, deadline) ==
    IF is_done(poller, result)
    THEN IF result.error # <<>> THEN "RuntimeError" ELSE "return"
    ELSE IF now >= deadline THEN "TimeoutError" ELSE "sleep"

\* No wait is in progress.
NoWait ==
    [poller |-> None, pc |-> "idle", now |-> 0, deadline |-> 0,
     poll_interval |-> 0, polls |-> 0, result |-> <<>>, outcome |-> None,
     returned |-> <<>>, raised |-> <<>>]

\* The call, up to its first poll.
BeginWait(poller, timeout) ==
    [NoWait EXCEPT !.poller = poller, !.pc = "poll", !.deadline = timeout,
                   !.poll_interval = initial_poll_interval(poller)]

\* ---------------------------------------------------------- log streaming
\*
\* The log callback of a deployment hands each message to the event loop
\* (call_soon_threadsafe), from the loop's own thread or from a worker
\* thread; the loop runs _broadcast_sync for each, oldest first, which puts
\* the message on the queue of every client subscribed to the deployment.
\* A client is one connection to /ws/logs/{deployment_id}; its queue is
\* the one subscribe_logs made for it.

MaxListeners == 2
MaxMessages == 3

Listeners == 1..MaxListeners
Threads == {"loop", "worker"}

\* asyncio.Queue(): maxsize 0, a queue without a limit.
maxsize == 0

\* Queue.full()
full(queue) == maxsize > 0 /\ Len(queue) >= maxsize

put_nowait_front(queue, message) ==
    IF full(queue) THEN queue ELSE <<message>> \o queue

\* q.put_nowait(message) inside try/except QueueFull: pass
put_nowait(queue, message) ==
    IF full(queue) THEN queue ELSE Append(queue, message)

NoListener ==
    [pc |-> "none", deployment_id |-> 0, queue |-> <<>>, message |-> <<>>,
     sent |-> <<>>, missed |-> 0]

registered(subs, deployment_id) ==
    IF deployment_id \in DOMAIN subs THEN subs[deployment_id] ELSE {}

\* _ws_subscribers[deployment_id].add(q)
subscribe_logs(subs, deployment_id, q) ==
    [e \in DOMAIN subs \cup {deployment_id} |->
        IF e = deployment_id THEN registered(subs, e) \cup {q} ELSE subs[e]]

unsubscribe_logs_keeps_key(subs, deployment_id, q) ==
    [e \in DOMAIN subs \cup {deployment_id} |->
        IF e = deployment_id THEN registered(subs, e) \ {q} ELSE subs[e]]

\* discard(q), then the entry goes when its set is empty; the lookup of an
\* id without entry makes an empty one, which goes the same way.
unsubscribe_logs(subs, deployment_id, q) ==
    LET discarded == registered(subs, deployment_id) \ {q}
    IN  [e \in (DOMAIN subs \cup {deployment_id})
                \ (IF discarded = {} THEN {deployment_id} ELSE {}) |->
            IF e = deployment_id THEN discarded ELSE subs[e]]

broadcast_sync_waits(ls, subs, deployment_id, message) ==
    [l \in Listeners |->
        IF /\ l \in registered(subs, deployment_id)
           /\ \A k \in registered(subs, deployment_id) : ls[k].queue = <<>>
        THEN [ls[l] EXCEPT !.queue = put_nowait(@, message)]
        ELSE ls[l]]

\* _broadcast_sync: every queue registered for the id is offered the message.
broadcast_sync(ls, subs, deployment_id, message) ==
    [l \in Listeners |->
        IF l \in registered(subs, deployment_id)
        THEN [ls[l] EXCEPT !.queue = put_nowait(@, message)]
        ELSE ls[l]]

\* ---------------------------------------------------------- the watchdog
\*
\* The watchdog task sleeps, then runs a cycle, for ever: the cycle is all
\* synchronous.  A cycle that raises has updated the documents the stream
\* gave it before the call that raised; the except clause logs the error.

\* The errors of the persistence layer a watchdog meets.
MaxWatchdogErrors == 2

NoWatchdog == [pc |-> "sleeping", errors |-> 0]

\* The documents a cycle has updated when it raises: those of some of the
\* deployments it would fail, but not of all.
processed_before_error(docs) ==
    LET stale == {d \in DOMAIN docs : watchdog_selects(docs[d])}
    IN  {ds \in SUBSET stale : ds = {} \/ ds # stale}

\* ------------------------------------------------------------------ Init

Init ==
    /\ phase = "down"
    /\ db = <<>>
    /\ run = [d \in Deployments |-> NoRun]
    /\ records = <<>>
    /\ resources = {}
    /\ url_map = InitialUrlMap(<<>>)
    /\ task = [d \in Deployments |-> NoTask]
    /\ settings = DefaultSettings
    /\ wait = NoWait
    /\ subscribers = <<>>
    /\ ready = <<>>
    /\ listener = [l \in Listeners |-> NoListener]
    /\ published = [d \in Deployments |-> <<>>]
    /\ watchdog = NoWatchdog
    /\ logs = {}
    /\ deletion = [d \in Deployments |-> "none"]

\* --------------------------------------------------------------- process

\* main.lifespan up to its yield: recovery runs over the whole collection,
\* then the watchdog task is created and the application starts serving.
Lifespan ==
    /\ phase = "down"
    /\ db' = [d \in DOMAIN db |->
                IF recover_selects(db[d]) THEN recover_doc(db[d]) ELSE db[d]]
    /\ phase' = "serving"
    /\ UNCHANGED run
    /\ UNCHANGED <<infraVars, wait, logVars, watchVars, purgeVars>>

\* The process is killed: every task and every timer of the loop is gone,
\* the collection stays as the last write left it.
Crash ==
    /\ phase = "serving"
    /\ phase' = "down"
    /\ run' = [d \in Deployments |-> NoRun]
    /\ UNCHANGED db
    /\ UNCHANGED <<infraVars, wait, logVars, watchVars, purgeVars>>

\* Time passes: every clock below its cap advances.  (Without a live run
\* below the cap, no comparison of the program depends on the time.)
Tick ==
    /\ \E d \in Deployments : run[d].timer # NoTime /\ Age(run[d].timer) < ClockCap
    /\ db' = [d \in DOMAIN db |-> [db[d] EXCEPT !.started_at = Older(@)]]
    /\ run' = [d \in Deployments |-> [run[d] EXCEPT !.timer = Older(@)]]
    /\ UNCHANGED phase
    /\ UNCHANGED <<infraVars, wait, logVars, watchVars, purgeVars>>

\* One cycle of _stale_deployment_watchdog, after its sleep: no await between
\* the query and the last update.
WatchdogCycle ==
    /\ phase = "serving"
    /\ watchdog.pc = "sleeping"
    /\ db' = [d \in DOMAIN db |->
                IF watchdog_selects(db[d]) THEN watchdog_doc(db[d]) ELSE db[d]]
    /\ UNCHANGED <<phase, run>>
    /\ UNCHANGED <<infraVars, wait, logVars, watchVars, purgeVars>>

\* ------------------------------------------------------------ submission

\* routes.deployments.create_deployment from crud.create_deployment to
\* asyncio.create_task: the document is stored, then the run is scheduled.
Submit(d) ==
    /\ phase = "serving"
    /\ d \notin DOMAIN db
    /\ \A e \in Deployments : e < d => e \in DOMAIN db
    /\ db' = [e \in DOMAIN db \cup {d} |-> IF e = d THEN create_deployment ELSE db[e]]
    /\ run' = [run EXCEPT ![d] = [NoRun EXCEPT !.pc = "created"]]
    /\ UNCHANGED phase
    /\ UNCHANGED <<infraVars, wait, logVars, watchVars, purgeVars>>

\* ---------------------------------------------------------- orchestrator

Store(d, st) ==
    /\ db' = [db EXCEPT ![d] = st.doc]
    /\ run' = [run EXCEPT ![d] = st.r]

\* The task of run d starts: from wait_for to the first await of a handler.
RunBegin(d) ==
    /\ phase = "serving"
    /\ run[d].pc = "created"
    /\ Store(d, StartRun([doc |-> db[d], r |-> run[d]], TRUE))
    /\ UNCHANGED phase
    /\ UNCHANGED <<infraVars, wait, logVars, watchVars, purgeVars>>

\* The handler run d is suspended in returns: the step is completed and the
\* loop goes on to the next await or to the end of the run.  A call of the
\* Notification collaborator has delivered or failed; _step_notify absorbs
\* the failure.
HandlerReturns(d) ==
    /\ phase = "serving"
    /\ run[d].pc = "handler"
    /\ CanResume(run[d])
    /\ \E recipients \in BOOLEAN, delivered \in BOOLEAN :
        LET r0 == Resumed(run[d])
            r1 == [r0 EXCEPT !.outcome = IF @ = "called"
                                         THEN (IF delivered THEN "sent" ELSE "failed")
                                         ELSE @]
        IN  /\ (run[d].outcome # "called") => delivered
            /\ (StepOf(r0) # "UPLOAD") => recipients
            /\ Store(d, RunLoop(CompleteStep([doc |-> db[d], r |-> r1], ResultUrl(d)),
                                recipients))
    /\ UNCHANGED phase
    /\ UNCHANGED <<infraVars, wait, logVars, watchVars, purgeVars>>

\* The handler run d is suspended in raises.  For a work step the except
\* clause of the loop records the failure and the loop goes on (to Notify);
\* an exception leaving the Notify step reaches the catch-all.
HandlerRaises(d) ==
    /\ phase = "serving"
    /\ run[d].pc = "handler"
    /\ CanResume(run[d])
    /\ MayRaise(StepOf(run[d]))
    /\ \E recipients \in BOOLEAN :
        LET st == [doc |-> db[d], r |-> Resumed(run[d])]
        IN  Store(d, IF StepOf(st.r) = NOTIFY THEN CatchAll(st)
                     ELSE RunLoop(FailStep(st), recipients))
    /\ UNCHANGED phase
    /\ UNCHANGED <<infraVars, wait, logVars, watchVars, purgeVars>>

DeadlineCancel_notifies(d) ==
    /\ phase = "serving"
    /\ run[d].pc = "handler"
    /\ Due(run[d])
    /\ run' = [run EXCEPT ![d] = [@ EXCEPT !.pc = "timed_out", !.timer = NoTime,
                                          !.cleaned = @ + 1,
                                          !.invoked[NOTIFY] = @ + 1]]
    /\ UNCHANGED <<phase, db>>
    /\ UNCHANGED <<infraVars, wait, logVars, watchVars, purgeVars>>

\* The deadline of wait_for fires while run d is suspended in a handler: the
\* task is cancelled, CancelledError passes every `except Exception` and only
\* the finally clause (_cleanup) runs.
DeadlineCancel(d) ==
    /\ phase = "serving"
    /\ run[d].pc = "handler"
    /\ Due(run[d])
    /\ run' = [run EXCEPT ![d] = [@ EXCEPT !.pc = "timed_out", !.timer = NoTime,
                                          !.cleaned = @ + 1]]
    /\ UNCHANGED <<phase, db>>
    /\ UNCHANGED <<infraVars, wait, logVars, watchVars, purgeVars>>

\* run() catches the TimeoutError of wait_for and forces the deployment FAILED.
DeadlineRecord(d) ==
    /\ phase = "serving"
    /\ run[d].pc = "timed_out"
    /\ db' = [db EXCEPT ![d] = update_deployment_status(@, TimeoutUpdates)]
    /\ run' = [run EXCEPT ![d] = [@ EXCEPT !.pc = "abandoned"]]
    /\ UNCHANGED phase
    /\ UNCHANGED <<infraVars, wait, logVars, watchVars, purgeVars>>

\* ------------------------------------------------------------------ Next

Next ==
    \/ Lifespan
    \/ Crash
    \/ Tick
    \/ WatchdogCycle
    \/ \E d \in Deployments : Submit(d)
    \/ \E d \in Deployments : RunBegin(d)
    \/ \E d \in Deployments : HandlerReturns(d)
    \/ \E d \in Deployments : HandlerRaises(d)
    \/ \E d \in Deployments : DeadlineCancel(d)
    \/ \E d \in Deployments : DeadlineRecord(d)

Spec == Init /\ [][Next]_vars

\* The scheduling C7 assumes: the event loop runs a task that is ready (a
\* created run starts), time passes and a due deadline fires, the watchdog
\* wakes up, and a process that is down is started again.  A handler is not
\* assumed to return, and nothing is assumed about crashes or submissions.
LiveSpec ==
    /\ Spec
    /\ WF_vars(Lifespan)
    /\ WF_vars(Tick)
    /\ WF_vars(WatchdogCycle)
    /\ \A d \in Deployments :
        /\ WF_vars(RunBegin(d))
        /\ WF_vars(DeadlineCancel(d))
        /\ WF_vars(DeadlineRecord(d))

\* ------------------------------------------- provisioning and deletion

\* The deployments on record, each of one mode and one website, before any
\* of them is provisioned.  The path rules the demo matcher holds at the
\* start vary where a Demo deployment reads them.
InfraInit ==
    /\ phase = "serving"
    /\ db = <<>>
    /\ run = [d \in Deployments |-> NoRun]
    /\ records \in {rs \in [Deployments -> [mode : DeploymentMode,
                                           website_name : Websites]] :
                        rs[1].website_name = 1}
    /\ resources = {}
    /\ url_map \in {InitialUrlMap(rules) : rules \in
                        IF \E d \in Deployments : records[d].mode = DEMO
                        THEN InitialPathRules ELSE {<<>>}}
    /\ task = [d \in Deployments |-> NoTask]
    /\ settings = DefaultSettings
    /\ wait = NoWait
    /\ subscribers = <<>>
    /\ ready = <<>>
    /\ listener = [l \in Listeners |-> NoListener]
    /\ published = [d \in Deployments |-> <<>>]
    /\ watchdog = NoWatchdog
    /\ logs = {}
    /\ deletion = [d \in Deployments |-> "none"]

Present(kind, t) == Res(kind, t.mode, t.website_name) \in resources

\* _step_infra calls deploy() of the provisioner of the deployment's mode
\* (for Cloud Run with the image the Build step pushed to the registry).
\* The call is a second one when a deploy() with the same inputs has
\* reported success and the website has not been torn down since.
DeployBegin(d) ==
    /\ d \in DOMAIN records
    /\ task[d].op = "none"
    /\ task' = [task EXCEPT ![d] =
            [NoTask EXCEPT !.op = "deploy", !.mode = records[d].mode,
                           !.website_name = records[d].website_name, !.pc = 1,
                           !.second = \E e \in Deployments \ {d} :
                                /\ task[e].op = "deploy"
                                /\ task[e].result = "success"
                                /\ task[e].mode = records[d].mode
                                /\ task[e].website_name = records[d].website_name]]
    /\ resources' = IF records[d].mode = CLOUDRUN
                    THEN resources \cup {Res("images", CLOUDRUN, records[d].website_name)}
                    ELSE resources
    /\ UNCHANGED <<phase, db, run, records, url_map>>
    /\ UNCHANGED <<settings, wait, logVars, watchVars, purgeVars>>

\* One _ensure_* closure of the Demo or Prod provisioner on a resource of
\* the website.
EnsureResource(d) ==
    /\ Deploying(task[d])
    /\ task[d].mode \in {DEMO, PROD}
    /\ DeployStep(task[d]) # "url_map_path_rule"
    /\ LET t == task[d]
           kind == DeployStep(t)
       IN  \E get \in Responses(Present(kind, t)), ins \in {"ok", "error"} :
            LET out == ensure_resource(kind, Present(kind, t), get, ins)
                t1 == [t EXCEPT !.calls = @ \o out.calls]
            IN  /\ task' = [task EXCEPT ![d] =
                        IF out.raised THEN deploy_failed(t1) ELSE deploy_next(t1)]
                /\ resources' = IF out.created
                                THEN resources \cup {Res(kind, t.mode, t.website_name)}
                                ELSE resources
    /\ UNCHANGED <<phase, db, run, records, url_map>>
    /\ UNCHANGED <<settings, wait, logVars, watchVars, purgeVars>>

\* The closure of _ensure_url_map_path_rule or _remove_url_map_path_rule up
\* to its patch: the URL map is read (and, to insert, the self link of the
\* backend bucket), and the body of the patch is computed.
UrlMapGet(d) ==
    /\ Deploying(task[d]) \/ Deleting(task[d])
    /\ task[d].mode = DEMO
    /\ task[d].snapshot = <<>>
    /\ LET t == task[d]
           name == target_matcher_name(url_map)
       IN  IF t.op = "deploy"
           THEN /\ DeployStep(t) = "url_map_path_rule"
                /\ \E get \in {"ok", "error"},
                      bb \in Responses(Present("backend_bucket", t)) :
                    LET t1 == [t EXCEPT !.calls = @ \o
                                <<Call("get", "url_map", get)>> \o
                                (IF get = "ok"
                                 THEN <<Call("get", "backend_bucket", bb)>>
                                 ELSE <<>>)]
                    IN  task' = [task EXCEPT ![d] =
                            IF \/ get # "ok" \/ bb # "ok" \/ name = None
                               \/ target_matcher(url_map, name) = 0
                            THEN deploy_failed(t1)
                            ELSE IF paths_present(url_map, t.website_name)
                            THEN deploy_next(t1)
                            ELSE [t1 EXCEPT !.snapshot = <<url_map>>,
                                            !.body = <<ensure_body(url_map, t.website_name)>>]]
           ELSE /\ DeleteStep(t) = "url_map_path_rule"
                /\ \E get \in {"ok", "error"} :
                    LET t1 == [t EXCEPT !.calls = @ \o <<Call("get", "url_map", get)>>]
                    IN  task' = [task EXCEPT ![d] =
                            IF get # "ok" THEN teardown_raised(t1)
                            ELSE IF name = None THEN delete_next(t1)
                            ELSE [t1 EXCEPT !.snapshot = <<url_map>>,
                                            !.body = <<remove_body(url_map, t.website_name)>>]]
    /\ records' = IF task'[d].response.deleted
                   THEN delete_deployment(records, d) ELSE records
    /\ UNCHANGED <<phase, db, run, resources, url_map>>
    /\ UNCHANGED <<settings, wait, logVars, watchVars, purgeVars>>

\* The patch of the URL map and the wait for its operation.
UrlMapPatch(d) ==
    /\ Deploying(task[d]) \/ Deleting(task[d])
    /\ task[d].snapshot # <<>>
    /\ \E answer \in {"ok", "error"} :
        LET t == task[d]
            resp == patch_response(url_map, t.snapshot[1], answer)
            t1 == [t EXCEPT !.calls = Append(@, Call("patch", "url_map", resp))]
        IN  /\ url_map' = IF resp = "ok" THEN t.body[1] ELSE url_map
            /\ task' = [task EXCEPT ![d] =
                    IF t.op = "deploy"
                    THEN (IF resp = "ok" THEN deploy_next(t1) ELSE deploy_failed(t1))
                    ELSE (IF resp = "ok" THEN delete_next(t1) ELSE teardown_raised(t1))]
    /\ records' = IF task'[d].response.deleted
                   THEN delete_deployment(records, d) ELSE records
    /\ UNCHANGED <<phase, db, run, resources>>
    /\ UNCHANGED <<settings, wait, logVars, watchVars, purgeVars>>

\* One awaited call of CloudRunDeployer.deploy.
CloudRunStep(d) ==
    /\ Deploying(task[d])
    /\ task[d].mode = CLOUDRUN
    /\ LET t == task[d]
           step == DeployStep(t)
           present == Present("service", t)
           service == Res("service", t.mode, t.website_name)
       IN  \E answer \in {"ok", "error"} :
            LET resp ==
                    CASE step = "service_exists" ->
                            IF answer = "ok" /\ ~present THEN "notfound" ELSE answer
                      [] step = "service_apply" ->
                            IF answer = "error" THEN "error"
                            ELSE IF t.exists /\ ~present THEN "notfound"
                            ELSE IF ~t.exists /\ present THEN "conflict"
                            ELSE "ok"
                      [] step \in {"set_iam_policy", "get_service"} ->
                            IF answer = "ok" /\ ~present THEN "notfound" ELSE answer
                      [] OTHER -> answer
                verb ==
                    CASE step = "service_exists" -> "get"
                      [] step = "service_apply" -> IF t.exists THEN "patch" ELSE "create"
                      [] step = "wait_operation" -> "poll"
                      [] step = "set_iam_policy" -> "set_iam_policy"
                      [] OTHER -> "get"
                t1 == [t EXCEPT !.calls = Append(@, Call(verb, "service", resp)),
                                !.exists = IF step = "service_exists"
                                           THEN resp = "ok" ELSE @]
            IN  /\ task' = [task EXCEPT ![d] =
                        IF step # "service_exists" /\ resp # "ok"
                        THEN deploy_failed(t1) ELSE deploy_next(t1)]
                /\ resources' = IF step = "service_apply" /\ resp = "ok"
                                THEN resources \cup {service}
                                ELSE resources
    /\ UNCHANGED <<phase, db, run, records, url_map>>
    /\ UNCHANGED <<settings, wait, logVars, watchVars, purgeVars>>

\* routes.deployments.delete_deployment up to its first suspension: the
\* record is read and the delete of the provisioner is called; for a mode
\* without teardown the route runs to its end.
DeleteBegin(d) ==
    /\ d \in DOMAIN records
    /\ task[d].op = "none" \/ (task[d].op = "deploy" /\ task[d].result # None)
    /\ LET t == [NoTask EXCEPT !.op = "delete", !.mode = records[d].mode,
                               !.website_name = records[d].website_name, !.pc = 1]
       IN  task' = [task EXCEPT ![d] =
                IF has_teardown(t.mode)
                THEN [t EXCEPT !.teardown = "invoked"]
                ELSE route_returns(t)]
    /\ records' = IF task'[d].response.deleted
                   THEN delete_deployment(records, d) ELSE records
    /\ UNCHANGED <<phase, db, run, resources, url_map>>
    /\ UNCHANGED <<settings, wait, logVars, watchVars, purgeVars>>

\* One delete closure of a provisioner on a resource of the website, and,
\* when it ends delete(), the rest of the route.
DeleteResource(d) ==
    /\ Deleting(task[d])
    /\ DeleteStep(task[d]) # "url_map_path_rule"
    /\ LET t == task[d]
           kind == DeleteStep(t)
       IN  \E resp \in Responses(Present(kind, t)) :
            LET t1 == [t EXCEPT !.calls = Append(@, Call("delete", kind, resp))]
            IN  /\ task' = [task EXCEPT ![d] =
                        IF delete_raises(kind, resp)
                        THEN teardown_raised(t1) ELSE delete_next(t1)]
                /\ resources' = IF resp = "ok"
                                THEN resources \ {Res(kind, t.mode, t.website_name)}
                                ELSE resources
    /\ records' = IF task'[d].response.deleted
                   THEN delete_deployment(records, d) ELSE records
    /\ UNCHANGED <<phase, db, run, url_map>>
    /\ UNCHANGED <<settings, wait, logVars, watchVars, purgeVars>>

InfraNext ==
    \/ \E d \in Deployments : DeployBegin(d)
    \/ \E d \in Deployments : EnsureResource(d)
    \/ \E d \in Deployments : UrlMapGet(d)
    \/ \E d \in Deployments : UrlMapPatch(d)
    \/ \E d \in Deployments : CloudRunStep(d)
    \/ \E d \in Deployments : DeleteBegin(d)
    \/ \E d \in Deployments : DeleteResource(d)

InfraSpec == InfraInit /\ [][InfraNext]_vars

\* ---------------------------------------------------------------- claims

IndexOf(step) == CHOOSE i \in 1..Len(PIPELINE_STEPS) : PIPELINE_STEPS[i] = step
Steps(d) == db[d].steps_status
\* The task of run d exists and the deadline has not cancelled it.
NotCancelled(d) == run[d].pc \in {"handler", "done"}
\* Run d ended by itself: the loop finished (or the catch-all ended it).
Ended(d) == run[d].pc = "done"
LoopFinished(d) == run[d].pc = "done" /\ run[d].outcome # "raised"

\* C1: in a run the deadline has not cancelled, once the handler of a
\* non-Notify step k has raised, step k is recorded failed, the steps before
\* k are recorded completed, and every later non-Notify step is recorded
\* skipped and its handler has not been invoked.
C1_SkipCascade ==
    \A d \in DOMAIN db :
        (NotCancelled(d) /\ run[d].failed_step # None) =>
            LET k == IndexOf(run[d].failed_step)
            IN  /\ Steps(d)[PIPELINE_STEPS[k]] = "failed"
                /\ \A i \in 1..(k - 1) : Steps(d)[PIPELINE_STEPS[i]] = "completed"
                /\ \A i \in (k + 1)..Len(PIPELINE_STEPS) :
                      PIPELINE_STEPS[i] # NOTIFY =>
                        /\ Steps(d)[PIPELINE_STEPS[i]] = "skipped"
                        /\ run[d].invoked[PIPELINE_STEPS[i]] = 0

\* A run has ended after its Build handler raised.
C1_Witness ==
    \E d \in DOMAIN db :
        /\ Ended(d)
        /\ run[d].failed_step = "BUILD"
        /\ Steps(d)["BUILD"] = "failed"
        /\ Steps(d)["UPLOAD"] = "skipped"

\* C2: when a run started through run() has ended, by its loop finishing or
\* by the deadline, the Notify handler has been invoked exactly once.
C2_NotifyExactlyOnce ==
    \A d \in DOMAIN db :
        run[d].pc \in {"done", "abandoned"} => run[d].invoked[NOTIFY] = 1

\* C3: when the loop of a run has finished, the status is failed with a
\* completion timestamp if a handler raised, else success with the URL the
\* Infra step produced and a completion timestamp; and a run leaves success
\* only with all eight steps recorded completed.
C3_FinalStatus ==
    \A d \in DOMAIN db :
        LoopFinished(d) =>
            /\ db[d].completed_at # NoTime
            /\ IF run[d].failed_step # None
               THEN db[d].status = FAILED
               ELSE /\ db[d].status = SUCCESS
                    /\ db[d].result_url = ResultUrl(d)
            /\ db[d].status = SUCCESS =>
                  \A s \in PipelineStep : Steps(d)[s] = "completed"

\* A run has ended in success with the URL of its Infra step.
C3_Witness ==
    \E d \in DOMAIN db :
        /\ LoopFinished(d)
        /\ db[d].status = SUCCESS
        /\ db[d].result_url = ResultUrl(d)
        /\ run[d].invoked["INFRA"] = 1

Cancelled(d) == run[d].pc \in {"timed_out", "abandoned"}

\* C5: once the deadline has cancelled a run, the run starts no further
\* handler, and when run() has handled the timeout the deployment is failed
\* with the timeout message and a completion timestamp.
C5_DeadlineAbandons ==
    /\ [](\A d \in DOMAIN db :
            run[d].pc = "abandoned" =>
                /\ db[d].status = FAILED
                /\ db[d].error_message = TimeoutError
                /\ db[d].completed_at # NoTime)
    /\ [][\A d \in DOMAIN db :
            Cancelled(d) =>
                \A s \in PipelineStep : run'[d].invoked[s] <= run[d].invoked[s]]_vars

\* The deadline has abandoned a run whose Build handler had not returned.
C5_Witness ==
    \E d \in DOMAIN db :
        /\ run[d].pc = "abandoned"
        /\ StepOf(run[d]) = "BUILD"
        /\ db[d].status = FAILED
        /\ db[d].error_message = TimeoutError

Terminal(d) == d \in DOMAIN db /\ db[d].status \in {SUCCESS, FAILED}

\* C6: once the status of a deployment is success or failed, no step of the
\* orchestrator run, the watchdog or the recovery changes it.
C6_TerminalIsFinal ==
    [][\A d \in DOMAIN db :
        (Terminal(d) /\ d \in DOMAIN db') => db'[d].status = db[d].status]_vars

\* A deployment the watchdog fails: running, with a start time older than
\* the ceiling.
Stale(d) ==
    /\ db[d].status = RUNNING
    /\ db[d].started_at # NoTime
    /\ Age(db[d].started_at) > PIPELINE_MAX_TIMEOUT_SECONDS

\* What recovery and watchdog do to the step map of deployment d.
StepsMarked(d) ==
    \A s \in DOMAIN db[d].steps_status :
        /\ s \in DOMAIN db'[d].steps_status
        /\ db'[d].steps_status[s] =
              CASE db[d].steps_status[s] = "running" -> "failed"
                [] db[d].steps_status[s] = "pending" -> "skipped"
                [] OTHER -> db[d].steps_status[s]

\* C7: every submitted deployment eventually has status success or failed,
\* under the scheduling of LiveSpec.
C7_EventuallyTerminal ==
    \A d \in Deployments : (d \in DOMAIN db) ~> Terminal(d)

\* A deployment whose handler did not return has become terminal by the
\* deadline, and another by the recovery after a crash.
C7_Witness ==
    \E d, e \in DOMAIN db :
        /\ Terminal(d) /\ run[d].pc = "abandoned"
        /\ Terminal(e) /\ db[e].error_message.kind = "interrupted"

\* C8: a watchdog cycle leaves every deployment that was running with a start
\* time older than the ceiling failed, with its running steps failed, its
\* pending steps skipped, a timed-out message and a completion timestamp.
C8_WatchdogCycle ==
    [][WatchdogCycle =>
        \A d \in DOMAIN db :
            Stale(d) =>
                /\ db'[d].status = FAILED
                /\ StepsMarked(d)
                /\ db'[d].error_message.kind = "watchdog"
                /\ db'[d].completed_at # NoTime]_vars

\* The watchdog has failed two deployments, one at a step that was running
\* with steps still pending.
C8_Witness ==
    /\ \A d \in Deployments :
          /\ d \in DOMAIN db
          /\ db[d].status = FAILED
          /\ db[d].error_message.kind = "watchdog"
    /\ \E d \in DOMAIN db :
          /\ db[d].steps_status["BUILD"] = "failed"
          /\ db[d].steps_status["UPLOAD"] = "skipped"

\* C9: while the process is not serving it accepts no submission and has no
\* run; the startup that makes it serving fails every deployment that was
\* running or queued, with its running steps failed, its pending steps
\* skipped, an interruption message and a completion timestamp, and leaves
\* no deployment running or queued.
C9_StartupRecovery ==
    /\ [](phase # "serving" => \A d \in Deployments : run[d].pc = "none")
    /\ [][phase # "serving" =>
            /\ DOMAIN db' = DOMAIN db
            /\ \A d \in Deployments : run'[d].pc = "none"
            /\ phase' = "serving" =>
                /\ \A d \in DOMAIN db :
                      db[d].status \in {RUNNING, QUEUED} =>
                        /\ db'[d].status = FAILED
                        /\ StepsMarked(d)
                        /\ db'[d].error_message.kind = "interrupted"
                        /\ db'[d].completed_at # NoTime
                /\ \A d \in DOMAIN db' : db'[d].status \notin {RUNNING, QUEUED}]_vars

\* After a crash the process serves again, with a deployment that was running
\* and one that was queued both recovered.
C9_Witness ==
    /\ phase = "serving"
    /\ \E d, e \in DOMAIN db :
          /\ db[d].error_message.kind = "interrupted"
          /\ db[d].steps_status["EXTRACT"] = "failed"
          /\ db[d].steps_status["BUILD"] = "skipped"
          /\ db[e].error_message.kind = "interrupted"
          /\ db[e].started_at = NoTime
          /\ db[e].steps_status["EXTRACT"] = "skipped"

\* C10: the step map of every stored deployment has exactly the eight steps
\* as keys, each with one of the five step statuses.
C10_StepMap ==
    \A d \in DOMAIN db :
        /\ DOMAIN db[d].steps_status = PipelineStep
        /\ \A s \in PipelineStep : db[d].steps_status[s] \in StepStatus

\* A deployment whose step map the orchestrator, the watchdog and then the
\* recovery have all written.
C10_Witness ==
    \E d, e \in DOMAIN db :
        /\ db[d].steps_status["EXTRACT"] = "completed"
        /\ db[d].steps_status["BUILD"] = "failed"
        /\ db[d].steps_status["NOTIFY"] = "skipped"
        /\ db[d].error_message.kind = "watchdog"
        /\ db[e].error_message.kind = "interrupted"

\* C11: a deployment whose status is failed has an error message stored,
\* whichever of the step failure, the catch-all, the deadline, the watchdog and
\* the recovery made it failed.
C11_FailedHasMessage ==
    \A d \in DOMAIN db :
        db[d].status = FAILED => db[d].error_message # NoError

\* One deployment failed by a step that raised, another by the deadline with
\* no step failed before.
C11_Witness ==
    \E d, e \in DOMAIN db :
        /\ db[d].status = FAILED /\ db[d].error_message.kind = "step"
        /\ db[e].status = FAILED /\ db[e].error_message = TimeoutError
        /\ run[e].failed_step = None

\* C12: however a run has ended, by its loop finishing after all steps
\* completed or after a step failed, by the catch-all, or by the deadline,
\* _cleanup has been executed for it.
C12_CleanupAlways ==
    \A d \in Deployments :
        run[d].pc \in {"done", "timed_out", "abandoned"} => run[d].cleaned >= 1

\* One run has ended in success and one was abandoned by the deadline, both
\* cleaned up.
C12_Witness ==
    \E d, e \in DOMAIN db :
        /\ run[d].pc = "done" /\ db[d].status = SUCCESS /\ run[d].cleaned = 1
        /\ run[e].pc = "abandoned" /\ run[e].cleaned = 1

\* C13: every call of the Notification collaborator by run d has
\* success = FALSE with the failed step's error text if a step of the run
\* failed, and success = TRUE with the result URL of the run if none did.
C13_NotifyArguments ==
    \A d \in Deployments :
        \A i \in DOMAIN run[d].notified :
            LET args == run[d].notified[i]
            IN  /\ args.success <=> run[d].failed_step = None
                /\ run[d].failed_step # None =>
                      args.error_message = StepError(run[d].failed_step)
                /\ run[d].failed_step = None => args.live_url = run[d].result_url

\* The collaborator has been told of a Build failure by one run and of a
\* success with its URL by another.
C13_Witness ==
    \E d, e \in DOMAIN db :
        /\ Len(run[d].notified) = 1
        /\ ~run[d].notified[1].success
        /\ run[d].notified[1].error_message = StepError("BUILD")
        /\ Len(run[e].notified) = 1
        /\ run[e].notified[1].success
        /\ run[e].notified[1].live_url = ResultUrl(e)

\* C14: a submission stores the deployment queued with all eight steps
\* pending and leaves its run created, not started; a run exists only for a
\* stored deployment; and the step in which a run starts finds the
\* deployment queued and leaves it running.
C14_SubmitThenRun ==
    /\ [](\A d \in Deployments : run[d].pc # "none" => d \in DOMAIN db)
    /\ [][\A d \in Deployments :
            /\ (d \notin DOMAIN db /\ d \in DOMAIN db') =>
                  /\ db'[d].status = QUEUED
                  /\ \A s \in PipelineStep : db'[d].steps_status[s] = "pending"
                  /\ run'[d].pc = "created"
            /\ (run[d].pc = "created" /\ run'[d].pc \notin {"created", "none"}) =>
                  /\ db[d].status = QUEUED
                  /\ db'[d].status = RUNNING]_vars

\* A run has started on the deployment its submission stored, while another
\* deployment is stored and its run not yet started.
C14_Witness ==
    \E d, e \in DOMAIN db :
        /\ db[d].status = RUNNING /\ run[d].pc = "handler"
        /\ db[e].status = QUEUED /\ run[e].pc = "created"

\* ---- deletion and provisioning (InfraSpec)

Removed(d) == d \notin DOMAIN records
TeardownOver(d) == task[d].teardown \in {"returned", "raised"}

Verbs(d) == {task[d].calls[i][1] : i \in DOMAIN task[d].calls}
Answers(d) == {task[d].calls[i][3] : i \in DOMAIN task[d].calls}

\* Deployment d runs deploy() a second time: another deployment of the same
\* mode and website has reported success and still stands (no deletion
\* request has followed it).
SecondDeploy(d) ==
    /\ task[d].op = "deploy" /\ task[d].second
    /\ \E e \in Deployments \ {d} :
        /\ task[e].op = "deploy" /\ task[e].result = "success"
        /\ task[e].mode = task[d].mode
        /\ task[e].website_name = task[d].website_name

DemoRules(m) ==
    LET i == CHOOSE i \in DOMAIN m.pathMatchers : m.pathMatchers[i].name = "demo-matcher"
    IN  m.pathMatchers[i].pathRules

Mentions(rule, website_name) ==
    <<website_name, "">> \in rule.paths \/ <<website_name, "/*">> \in rule.paths

Unrelated(rules, website_name) ==
    SelectSeq(rules, LAMBDA rule : ~Mentions(rule, website_name))

BothPresent(m, website_name) ==
    /\ \E i \in DOMAIN DemoRules(m) : <<website_name, "">> \in DemoRules(m)[i].paths
    /\ \E i \in DOMAIN DemoRules(m) : <<website_name, "/*">> \in DemoRules(m)[i].paths

Inserting(d) == task[d].op = "deploy" /\ task[d].mode = DEMO

Teardown(d) == task[d].op = "delete" /\ task[d].mode \in {DEMO, CLOUDRUN}
LastAnswer(d) == task[d].calls[Len(task[d].calls)][3]
Failures == {"error", "precondition_failed"}
Attempted(d, kind) == \E i \in DOMAIN task[d].calls : task[d].calls[i][2] = kind

\* C18: the delete of a provisioner whose resources are already absent
\* returns success: a not-found answer of a delete step is absorbed and
\* never reaches the caller.  delete() raises only on an answer that is a
\* failure other than not-found, and a teardown whose calls met no such
\* failure returns and leaves the route without a warning.
C18_NotFoundAbsorbed ==
    \A d \in Deployments :
        Teardown(d) =>
            /\ task[d].teardown = "raised" => LastAnswer(d) \in Failures
            /\ Answers(d) \cap Failures = {} =>
                /\ task[d].teardown # "raised"
                /\ task[d].errors_list = <<>>
                /\ task[d].response.warnings = <<>>

C18_Witness ==
    \E d, e \in Deployments :
        /\ Teardown(d) /\ task[d].mode = CLOUDRUN /\ task[d].teardown = "returned"
        /\ Len(task[d].calls) = 2 /\ Answers(d) = {"notfound"}
        /\ Teardown(e) /\ task[e].mode = DEMO /\ task[e].teardown = "returned"
        /\ Len(task[e].calls) = 4
        /\ task[e].calls[3] = Call("delete", "backend_bucket", "notfound")
        /\ task[e].calls[4] = Call("delete", "storage_bucket", "notfound")

Before(d, i, verb, kind, answers) ==
    \E j \in 1..(i - 1) :
        /\ task[d].calls[j][1] = verb /\ task[d].calls[j][2] = kind
        /\ task[d].calls[j][3] \in answers

\* C19: teardown deletes dependents before dependencies.  Demo delete
\* calls the delete of the backend bucket only after the patch that removes
\* the path rule has completed, and the delete of the storage bucket only
\* after the delete of the backend bucket has completed; CloudRun delete
\* calls the delete of the images only after the delete of the service.
C19_TeardownOrder ==
    \A d \in Deployments :
        Teardown(d) =>
            \A i \in DOMAIN task[d].calls :
                LET kind == task[d].calls[i][2]
                IN  /\ kind = "backend_bucket" =>
                        Before(d, i, "patch", "url_map", {"ok"})
                    /\ kind = "storage_bucket" =>
                        Before(d, i, "delete", "backend_bucket", {"ok", "notfound"})
                    /\ kind = "images" =>
                        Before(d, i, "delete", "service", {"ok", "notfound"})
                    /\ kind \in {"url_map", "service"} =>
                        \A j \in 1..(i - 1) : task[d].calls[j][2] = kind

C19_Witness ==
    \E d, e \in Deployments :
        /\ Teardown(d) /\ task[d].mode = DEMO /\ task[d].teardown = "returned"
        /\ Len(task[d].calls) = 4 /\ Answers(d) = {"ok"}
        /\ Teardown(e) /\ task[e].mode = CLOUDRUN /\ task[e].teardown = "returned"
        /\ Len(task[e].calls) = 2 /\ Answers(e) = {"ok"}

\* C20: during the teardown of a provisioner, when the delete of one
\* resource fails with an error other than not-found, the failure is a
\* non-fatal warning and the deletes of the remaining resources are still
\* attempted: a teardown that is over and has met such a failure has
\* attempted every resource of the website.
C20_FailureDoesNotStopTeardown ==
    \A d \in Deployments :
        ( /\ Teardown(d) /\ TeardownOver(d)
          /\ \E i \in DOMAIN task[d].calls :
                task[d].calls[i][1] = "delete" /\ task[d].calls[i][3] = "error" ) =>
            \A i \in DOMAIN DeleteSteps(task[d].mode) :
                LET step == DeleteSteps(task[d].mode)[i]
                IN  Attempted(d, IF step = "url_map_path_rule" THEN "url_map" ELSE step)


\* The calls a step of d's task adds to its log.
NewCalls(d) == SubSeq(task'[d].calls, Len(task[d].calls) + 1, Len(task'[d].calls))

\* What the step of deploy() that d is at would ensure is there already.
AlreadyThere(d) ==
    CASE task[d].pc = 1 ->
            Res("storage_bucket", DEMO, task[d].website_name) \in resources
      [] task[d].pc = 2 ->
            Res("backend_bucket", DEMO, task[d].website_name) \in resources
      [] task[d].pc = 3 ->
            /\ Res("backend_bucket", DEMO, task[d].website_name) \in resources
            /\ BothPresent(url_map, task[d].website_name)

\* C26: a Demo deploy that finds the storage bucket, the backend bucket
\* and both path patterns already there makes read calls only and reports
\* success with the url of the website: each of its steps that finds what
\* it ensures, its lookups answered, adds lookups only to the calls,
\* changes neither the resources nor the URL map, prepares no patch, and
\* goes on to the next step or, after the last, reports success with the
\* url.
C26_ExistingMeansReadsOnly ==
    [][\A d \in Deployments :
        ( /\ Inserting(d) /\ task[d].result = None
          /\ task'[d] # task[d]
          /\ AlreadyThere(d)
          /\ \A i \in DOMAIN NewCalls(d) : NewCalls(d)[i][3] = "ok" ) =>
            /\ \A i \in DOMAIN NewCalls(d) : NewCalls(d)[i][1] = "get"
            /\ resources' = resources
            /\ url_map' = url_map
            /\ task'[d].snapshot = <<>>
            /\ IF task[d].pc < 3
               THEN task'[d].pc = task[d].pc + 1 /\ task'[d].result = None
               ELSE /\ task'[d].result = "success"
                    /\ task'[d].url =
                        <<<<"https", "digitaldatatest.com", task[d].website_name>>>>
      ]_vars

C26_Witness ==
    \E d \in Deployments :
        /\ Inserting(d) /\ task[d].result = "success" /\ ~task[d].second
        /\ task[d].url # <<>>
        /\ Len(task[d].calls) = 4 /\ Verbs(d) = {"get"} /\ Answers(d) = {"ok"}

\* The backend every rule that lists the path points to.
PointsTo(m, path, service) ==
    /\ \E i \in DOMAIN DemoRules(m) : path \in DemoRules(m)[i].paths
    /\ \A i \in DOMAIN DemoRules(m) :
          path \in DemoRules(m)[i].paths => DemoRules(m)[i].service = service

\* C27: whenever a Demo deploy reports success, the URL map maps both
\* /{name} and /{name}/* to the backend bucket of that website, whatever
\* rules the map held before, rules that list those patterns and point to
\* another backend included.
C27_SuccessMeansOwnBackend ==
    [][\A d \in Deployments :
        ( /\ Inserting(d) /\ task[d].result = None
          /\ task'[d].result = "success" ) =>
            /\ PointsTo(url_map', <<task[d].website_name, "">>,
                        <<"backendBuckets", task[d].website_name>>)
            /\ PointsTo(url_map', <<task[d].website_name, "/*">>,
                        <<"backendBuckets", task[d].website_name>>)
      ]_vars

RunCalls(d) == task[d].calls
Applies(d) ==
    {i \in DOMAIN RunCalls(d) : RunCalls(d)[i][1] \in {"create", "patch"}}

\* C31: in CloudRun deploy the access policy is set only after the create
\* or update operation has been polled to successful completion; when that
\* operation fails or times out the policy is not set and deploy reports
\* failure; and one deploy issues exactly one of create and patch, the
\* patch when the existence check found the service, the create otherwise.
C31_PolicyAfterRollout ==
    \A d \in Deployments :
        (task[d].op = "deploy" /\ task[d].mode = CLOUDRUN) =>
            /\ \A i \in DOMAIN RunCalls(d) :
                  /\ RunCalls(d)[i][1] = "set_iam_policy" =>
                        /\ i > 3
                        /\ RunCalls(d)[i - 1] = <<"poll", "service", "ok">>
                        /\ RunCalls(d)[i - 2][1] \in {"create", "patch"}
                        /\ RunCalls(d)[i - 2][3] = "ok"
                  /\ (RunCalls(d)[i][1] = "poll" /\ RunCalls(d)[i][3] # "ok") =>
                        /\ i = Len(RunCalls(d))
                        /\ task[d].result = "failed"
            /\ Cardinality(Applies(d)) <= 1
            /\ Len(RunCalls(d)) >= 2 =>
                  /\ Applies(d) = {2}
                  /\ RunCalls(d)[2][1] =
                        IF RunCalls(d)[1][3] = "ok" THEN "patch" ELSE "create"
            /\ task[d].result = "success" =>
                  \E i \in DOMAIN RunCalls(d) :
                      RunCalls(d)[i] = <<"set_iam_policy", "service", "ok">>

C31_Witness ==
    \E d, e \in Deployments :
        /\ task[d].op = "deploy" /\ task[d].mode = CLOUDRUN
        /\ task[d].result = "success"
        /\ RunCalls(d)[2] = <<"create", "service", "ok">>
        /\ task[e].op = "deploy" /\ task[e].mode = CLOUDRUN
        /\ task[e].result = "failed"
        /\ RunCalls(e)[Len(RunCalls(e))] = <<"poll", "service", "error">>

\* ------------------------------------------- claims on the watchdog's reach

\* The steps of deployment d the watchdog has no business with.
Settled(d) ==
    {s \in DOMAIN db[d].steps_status :
        db[d].steps_status[s] \in {"completed", "failed", "skipped"}}

\* C32: a watchdog cycle leaves every deployment untouched that is queued,
\* success or failed, or running with a start time within the ceiling; of a
\* deployment it fails, the steps recorded completed, failed or skipped keep
\* their status.
C32_WatchdogTouchesOnlyStale ==
    [][WatchdogCycle =>
        /\ DOMAIN db' = DOMAIN db
        /\ \A d \in DOMAIN db :
              /\ db[d].status \in {QUEUED, SUCCESS, FAILED} => db'[d] = db[d]
              /\ (db[d].status = RUNNING /\ db[d].started_at # NoTime
                    /\ Age(db[d].started_at) <= PIPELINE_MAX_TIMEOUT_SECONDS)
                    => db'[d] = db[d]
              /\ db'[d] # db[d] =>
                    \A s \in Settled(d) :
                        db'[d].steps_status[s] = db[d].steps_status[s]]_vars

\* The watchdog has failed one deployment that had a completed step, while
\* the other is running within the ceiling.
C32_Witness ==
    \E d, e \in DOMAIN db :
        /\ db[d].status = FAILED
        /\ db[d].error_message.kind = "watchdog"
        /\ \E s \in DOMAIN db[d].steps_status : db[d].steps_status[s] = "completed"
        /\ db[e].status = RUNNING
        /\ db[e].started_at # NoTime
        /\ Age(db[e].started_at) <= PIPELINE_MAX_TIMEOUT_SECONDS

\* ------------------------------------------------ claims on the step order

\* The order the steps are to be taken in.
Order ==
    <<"EXTRACT", "AI_INSPECT", "AI_FIX", "BUILD", "VERIFY", "INFRA", "UPLOAD", "NOTIFY">>
Pos(step) == CHOOSE i \in 1..Len(Order) : Order[i] = step
Earlier(step) == {Order[i] : i \in 1..(Pos(step) - 1)}
Later(step) == {Order[i] : i \in (Pos(step) + 1)..Len(Order)}
RunningSteps(d) == {s \in DOMAIN Steps(d) : Steps(d)[s] = "running"}
\* The handlers a step of the program invokes for deployment d.
InvokedNow(d) == {s \in PipelineStep : run'[d].invoked[s] > run[d].invoked[s]}

\* C34: the handlers of a run are invoked in the order Extract, AiInspect,
\* AiFix, Build, Verify, Infra, Upload, Notify, each at most once; the handler
\* of a step other than Notify is invoked only with every earlier step
\* recorded completed; and no record has two steps running.
C34_FixedOrderOneRunning ==
    /\ [](\A d \in DOMAIN db : Cardinality(RunningSteps(d)) <= 1)
    /\ [][\A d \in DOMAIN db \cap DOMAIN db' :
            \A s \in InvokedNow(d) :
                /\ run'[d].invoked[s] = 1
                /\ \A t \in Later(s) : run[d].invoked[t] = 0
                /\ s # "NOTIFY" =>
                      \A t \in Earlier(s) :
                          /\ run'[d].invoked[t] = 1
                          /\ db'[d].steps_status[t] = "completed"]_vars

\* A run is in its Upload handler with the seven earlier handlers invoked
\* and Upload the one step running.
C34_Witness ==
    \E d \in DOMAIN db :
        /\ run[d].pc = "handler"
        /\ RunningSteps(d) = {"UPLOAD"}
        /\ \A t \in Earlier("UPLOAD") :
              run[d].invoked[t] = 1 /\ Steps(d)[t] = "completed"
        /\ run[d].invoked["NOTIFY"] = 0

\* The steps of deployment d that are not settled.
Unsettled(d) == {s \in DOMAIN Steps(d) : Steps(d)[s] \in {"running", "pending"}}

\* C35: whenever the status of a deployment is success or failed, none of
\* its steps is recorded running or pending.
C35_TerminalHasNoOpenStep ==
    \A d \in DOMAIN db : Terminal(d) => Unsettled(d) = {}

\* C36: a step recorded completed, failed or skipped keeps that status from
\* then on, whatever the interleaving of the run with the watchdog cycles.
C36_SettledStepIsFinal ==
    [][\A d \in DOMAIN db \cap DOMAIN db' :
        \A s \in Settled(d) :
            db'[d].steps_status[s] = db[d].steps_status[s]]_vars

\* -------------------------------------- claims on the routing of other paths

\* The path patterns the demo path matcher routes.
Routed(m) == UNION {DemoRules(m)[i].paths : i \in DOMAIN DemoRules(m)}
\* /{name} and /{name}/*
Patterns(website_name) == {<<website_name, "">>, <<website_name, "/*">>}

\* C37: inserting or removing the path rule of a website leaves every path
\* pattern routed that is not /{name} or /{name}/* of that website.
C37_OtherPatternsStayRouted ==
    [][\A d \in Deployments :
        (UrlMapPatch(d) /\ task[d].mode = DEMO) =>
            Routed(url_map) \ Patterns(task[d].website_name) \subseteq Routed(url_map')]_vars

\* --------------------------------------- claims on the deletion response

\* The deletion request for d has been answered, or its teardown is over.
RequestOver(d) ==
    task[d].op = "delete" /\ (task[d].teardown # "invoked" \/ task[d].response.deleted)

\* C39: a deletion request for an existing deployment removes the record
\* and is answered deleted whether the teardown returned or raised; when the
\* teardown raised the answer carries its error as a warning, else none.
C39_DeletedDespiteTeardownError ==
    \A d \in Deployments :
        RequestOver(d) =>
            /\ d \notin DOMAIN records
            /\ task[d].response.deleted
            /\ Len(task[d].response.warnings) = (IF task[d].teardown = "raised" THEN 1 ELSE 0)

\* The teardown of a Demo deployment and that of a Cloud Run deployment
\* have raised, the first on a delete answered with an error; both requests
\* are answered.
C39_Witness ==
    \E d, e \in Deployments :
        /\ task[d].op = "delete" /\ task[d].mode = DEMO /\ task[d].teardown = "raised"
        /\ task[d].calls[Len(task[d].calls)][3] = "error"
        /\ task[d].response.warnings = <<"Demo cleanup error">>
        /\ task[e].op = "delete" /\ task[e].mode = CLOUDRUN /\ task[e].teardown = "raised"
        /\ task[e].response.warnings = <<"Cloud Run cleanup error">>
        /\ records = <<>>

\* ======================================================= Prod provisioning

\* One Prod deployment is on record, under any setting of the flags; of
\* its stages, the first few have their resources already (an earlier
\* deploy() got that far), the others have not.
ProdInit ==
    /\ phase = "serving"
    /\ db = <<>>
    /\ run = [d \in Deployments |-> NoRun]
    /\ records \in [{1} -> [mode : {PROD}, website_name : Websites]]
    /\ settings \in Settings
    /\ resources \in {{Res(ProdDeploySteps[i], PROD, records[1].website_name) :
                            i \in 1..k} : k \in 0..Len(ProdDeploySteps)}
    /\ url_map = InitialUrlMap(<<>>)
    /\ task = [d \in Deployments |-> NoTask]
    /\ wait = NoWait
    /\ subscribers = <<>>
    /\ ready = <<>>
    /\ listener = [l \in Listeners |-> NoListener]
    /\ published = [d \in Deployments |-> <<>>]
    /\ watchdog = NoWatchdog
    /\ logs = {}
    /\ deletion = [d \in Deployments |-> "none"]

ProdNext ==
    \/ \E d \in Deployments : DeployBegin(d)
    \/ \E d \in Deployments : EnsureResource(d)
    \/ \E d \in Deployments : DeleteBegin(d)

ProdSpec == ProdInit /\ [][ProdNext]_vars

\* ---- claims on Prod provisioning

ProdCalls == task[1].calls

\* A call before the i-th has found the resource or has created it.
EnsuredBefore(kind, i) ==
    \E j \in 1..(i - 1) :
        /\ ProdCalls[j][2] = kind
        /\ ProdCalls[j][1] \in {"get", "create"}
        /\ ProdCalls[j][3] = "ok"

\* The resources a resource of the kind refers to.
References(kind) ==
    CASE kind = "backend_bucket" -> {"storage_bucket"}
      [] kind = "url_map" -> {"backend_bucket"}
      [] kind = "https_target_proxy" -> {"url_map", "ssl_certificate"}
      [] kind = "http_target_proxy" -> {"url_map"}
      [] kind = "https_forwarding_rule" -> {"static_ip", "https_target_proxy"}
      [] kind = "http_forwarding_rule" -> {"static_ip", "http_target_proxy"}
      [] kind \in {"dns_a_record", "dns_cname_record"} -> {"static_ip"}
      [] OTHER -> {}

\* The i-th call is one on which the closure of its stage raises: a create
\* that is refused, or a lookup that fails where the closure does not go on
\* to create.
StageFails(i) ==
    \/ ProdCalls[i][1] = "create" /\ ProdCalls[i][3] # "ok"
    \/ /\ ProdCalls[i][1] = "get" /\ ProdCalls[i][3] = "error"
       /\ ProdCalls[i][2] \notin {"storage_bucket", "dns_a_record",
                                   "dns_cname_record"}

\* C30: in Prod deploy a resource is looked up or created only after the
\* resources it refers to have been ensured (the storage bucket before the
\* backend bucket, the backend bucket before the URL map, the URL map, and
\* the certificate when enabled, before the target proxies, the static IP
\* and the proxies before the forwarding rules, the static IP before the
\* DNS records); a stage that fails is the last one attempted, and deploy
\* reports failure.
C30_ProdOrder ==
    task[1].op = "deploy" =>
        /\ \A i \in DOMAIN ProdCalls :
              /\ \A kind \in References(ProdCalls[i][2]) : EnsuredBefore(kind, i)
              /\ StageFails(i) => i = Len(ProdCalls) /\ task[1].result = "failed"
        /\ task[1].result = "failed" => StageFails(Len(ProdCalls))
        /\ task[1].result = "success" =>
              /\ EnsuredBefore("http_forwarding_rule", Len(ProdCalls) + 1)
              /\ settings.PROD_AUTO_CREATE_SSL_CERT =>
                    EnsuredBefore("https_forwarding_rule", Len(ProdCalls) + 1)
              /\ settings.PROD_AUTO_CREATE_DNS_ZONE =>
                    EnsuredBefore("dns_cname_record", Len(ProdCalls) + 1)

C30_Witness ==
    /\ task[1].op = "deploy" /\ task[1].result = "success"
    /\ settings.PROD_AUTO_CREATE_SSL_CERT /\ settings.PROD_AUTO_CREATE_DNS_ZONE
    /\ \E i \in DOMAIN ProdCalls :
          ProdCalls[i] = <<"create", "https_target_proxy", "ok">>
    /\ \E i \in DOMAIN ProdCalls :
          ProdCalls[i] = <<"get", "url_map", "ok">>

\* ======================================================= operation polling

\* A wait on an operation handle, from its call to its end.
WaitInit ==
    /\ phase = "down"
    /\ db = <<>>
    /\ run = [d \in Deployments |-> NoRun]
    /\ records = <<>>
    /\ resources = {}
    /\ url_map = InitialUrlMap(<<>>)
    /\ task = [d \in Deployments |-> NoTask]
    /\ settings = DefaultSettings
    /\ wait \in UNION {{BeginWait(poller, timeout) :
                            timeout \in Timeouts(poller)} : poller \in Pollers}
    /\ subscribers = <<>>
    /\ ready = <<>>
    /\ listener = [l \in Listeners |-> NoListener]
    /\ published = [d \in Deployments |-> <<>>]
    /\ watchdog = NoWatchdog
    /\ logs = {}
    /\ deletion = [d \in Deployments |-> "none"]

\* One round of the loop: the poll, answered after some latency, and what
\* the loop makes of the answer, up to the sleep or the end of the call.
PollOperation ==
    /\ wait.pc = "poll"
    /\ \E result \in OperationResources(wait.poller),
          latency \in 0..MaxPollLatency :
        LET now == wait.now + latency
            outcome == poll_outcome(wait.poller, result, now, wait.deadline)
            polled == [wait EXCEPT !.now = now, !.polls = @ + 1,
                                   !.result = <<result>>]
        IN  wait' =
              CASE outcome = "return" ->
                     [polled EXCEPT !.pc = "over", !.outcome = "return",
                                    !.returned = <<result>>]
                [] outcome = "RuntimeError" ->
                     [polled EXCEPT !.pc = "over", !.outcome = "RuntimeError",
                                    !.raised = <<error_messages(result)>>]
                [] outcome = "TimeoutError" ->
                     [polled EXCEPT !.pc = "over", !.outcome = "TimeoutError"]
                [] outcome = "sleep" -> [polled EXCEPT !.pc = "sleep"]
    /\ UNCHANGED <<pipeVars, infraVars, logVars, watchVars, purgeVars>>

\* time.sleep(poll_interval) is over; the interval backs off.
Sleep ==
    /\ wait.pc = "sleep"
    /\ wait' = [wait EXCEPT
                   !.pc = "poll",
                   !.now = @ + wait.poll_interval,
                   !.poll_interval = next_poll_interval(wait.poller, @)]
    /\ UNCHANGED <<pipeVars, infraVars, logVars, watchVars, purgeVars>>

WaitNext == PollOperation \/ Sleep

WaitSpec == WaitInit /\ [][WaitNext]_vars

\* The caller's thread runs on: a poll is answered and a sleep ends.
WaitLive == WaitSpec /\ WF_vars(PollOperation) /\ WF_vars(Sleep)

\* ---- claims on operation polling

Observed == wait.result[1]

\* The poll observed the operation in a terminal state.
Terminal_(r) ==
    \/ wait.poller = GLOBAL_OPERATION /\ r.status = "DONE"
    \/ wait.poller = RUN_OPERATION /\ r.done

WaitOver == wait.outcome # None

\* The outcome is the one the latest poll calls for.
OutcomeMatches ==
    /\ wait.outcome \in {None, "return", "RuntimeError", "TimeoutError"}
    /\ wait.outcome = "return" =>
          /\ Terminal_(Observed) /\ Observed.error = <<>>
          /\ wait.returned = <<Observed>> /\ wait.raised = <<>>
    /\ wait.outcome = "RuntimeError" =>
          /\ Terminal_(Observed) /\ Observed.error # <<>>
          /\ wait.raised = Observed.error /\ wait.returned = <<>>
    /\ wait.outcome = "TimeoutError" =>
          /\ ~Terminal_(Observed) /\ wait.now >= wait.deadline
          /\ wait.returned = <<>> /\ wait.raised = <<>>
    /\ (wait.polls > 0 /\ Terminal_(Observed)) => WaitOver

\* A poll is made only while no poll has observed a terminal state.
PollsWhileRunning ==
    wait'.polls > wait.polls =>
        /\ ~WaitOver
        /\ wait.polls > 0 => ~Terminal_(Observed)

LogInit ==
    /\ phase = "serving"
    /\ db = <<>>
    /\ run = [d \in Deployments |-> NoRun]
    /\ records = <<>>
    /\ resources = {}
    /\ url_map = InitialUrlMap(<<>>)
    /\ task = [d \in Deployments |-> NoTask]
    /\ settings = DefaultSettings
    /\ wait = NoWait
    /\ subscribers = <<>>
    /\ ready = <<>>
    /\ listener = [l \in Listeners |-> NoListener]
    /\ published = [d \in Deployments |-> <<>>]
    /\ watchdog = NoWatchdog
    /\ logs = {}
    /\ deletion = [d \in Deployments |-> "none"]

\* The number of messages logged so far; every message is its own.
Logged ==
    Cardinality(UNION {{published[d][i] : i \in DOMAIN published[d]} :
                           d \in Deployments})

Connected(l) == listener[l].pc \in {"waiting", "sending", "keepalive"}

\* stream_logs up to its first wait: the connection is accepted and a new
\* queue is registered for the id.
Connect(l, deployment_id) ==
    /\ listener[l].pc = "none"
    /\ subscribers' = subscribe_logs(subscribers, deployment_id, l)
    /\ listener' = [listener EXCEPT
                       ![l] = [@ EXCEPT !.pc = "waiting",
                                        !.deployment_id = deployment_id,
                                        !.missed = Len(published[deployment_id])]]
    /\ UNCHANGED <<ready, published>>
    /\ UNCHANGED <<pipeVars, infraVars, wait, watchVars, purgeVars>>

\* _log of the callback of an id, called on the given thread: the broadcast
\* is handed to the loop, and the call returns.
Log(deployment_id, thread) ==
    /\ Logged < MaxMessages
    /\ LET message == <<Logged + 1, thread>>
       IN  /\ ready' = Append(ready, <<deployment_id, message>>)
           /\ published' = [published EXCEPT
                               ![deployment_id] = Append(@, message)]
    /\ UNCHANGED <<subscribers, listener>>
    /\ UNCHANGED <<pipeVars, infraVars, wait, watchVars, purgeVars>>

\* The loop runs the oldest callback it was handed: _broadcast_sync.
Broadcast ==
    /\ ready # <<>>
    /\ listener' = broadcast_sync(listener, subscribers,
                                  Head(ready)[1], Head(ready)[2])
    /\ ready' = Tail(ready)
    /\ UNCHANGED <<subscribers, published>>
    /\ UNCHANGED <<pipeVars, infraVars, wait, watchVars, purgeVars>>

\* queue.get() returns the oldest message; send_text is awaited.
Get(l) ==
    /\ listener[l].pc = "waiting"
    /\ listener[l].queue # <<>>
    /\ listener' = [listener EXCEPT
                       ![l] = [@ EXCEPT !.pc = "sending",
                                        !.message = <<Head(listener[l].queue)>>,
                                        !.queue = Tail(@)]]
    /\ UNCHANGED <<subscribers, ready, published>>
    /\ UNCHANGED <<pipeVars, infraVars, wait, watchVars, purgeVars>>

\* send_text returns: the client has the message.
Send(l) ==
    /\ listener[l].pc = "sending"
    /\ listener' = [listener EXCEPT
                       ![l] = [@ EXCEPT !.pc = "waiting",
                                        !.sent = Append(@, listener[l].message[1]),
                                        !.message = <<>>]]
    /\ UNCHANGED <<subscribers, ready, published>>
    /\ UNCHANGED <<pipeVars, infraVars, wait, watchVars, purgeVars>>

\* No message came for 30 s: wait_for raises TimeoutError and the keepalive
\* frame is sent.
IdleTimeout(l) ==
    /\ listener[l].pc = "waiting"
    /\ listener[l].queue = <<>>
    /\ listener' = [listener EXCEPT ![l] = [@ EXCEPT !.pc = "keepalive"]]
    /\ UNCHANGED <<subscribers, ready, published>>
    /\ UNCHANGED <<pipeVars, infraVars, wait, watchVars, purgeVars>>

\* send_text of the keepalive frame returns: the loop waits again.
Keepalive(l) ==
    /\ listener[l].pc = "keepalive"
    /\ listener' = [listener EXCEPT ![l] = [@ EXCEPT !.pc = "waiting"]]
    /\ UNCHANGED <<subscribers, ready, published>>
    /\ UNCHANGED <<pipeVars, infraVars, wait, watchVars, purgeVars>>

\* Fault: a loop that ends without the finally clause.
Disconnect_keeps_queue(l) ==
    /\ listener[l].pc \in {"sending", "keepalive"}
    /\ listener' = [listener EXCEPT ![l] = [@ EXCEPT !.pc = "closed"]]
    /\ UNCHANGED <<subscribers, ready, published>>
    /\ UNCHANGED <<pipeVars, infraVars, wait, watchVars, purgeVars>>
\* The loop of stream_logs ends: send_text of a message raises (the client
\* has disconnected, or another error), or send_text of the keepalive frame
\* raises.  The finally clause unsubscribes the queue.
Disconnect(l) ==
    /\ listener[l].pc \in {"sending", "keepalive"}
    /\ subscribers' = unsubscribe_logs(subscribers, listener[l].deployment_id, l)
    /\ listener' = [listener EXCEPT ![l] = [@ EXCEPT !.pc = "closed"]]
    /\ UNCHANGED <<ready, published>>
    /\ UNCHANGED <<pipeVars, infraVars, wait, watchVars, purgeVars>>

\* unsubscribe_logs is given a queue that is not registered under the id.
Unsubscribe(l, deployment_id) ==
    /\ l \notin registered(subscribers, deployment_id)
    /\ subscribers' = unsubscribe_logs(subscribers, deployment_id, l)
    /\ UNCHANGED <<ready, listener, published>>
    /\ UNCHANGED <<pipeVars, infraVars, wait, watchVars, purgeVars>>

LogNext ==
    \/ \E l \in Listeners, d \in Deployments : Connect(l, d)
    \/ \E d \in Deployments, thread \in Threads : Log(d, thread)
    \/ Broadcast
    \/ \E l \in Listeners : Get(l)
    \/ \E l \in Listeners : Send(l)
    \/ \E l \in Listeners : IdleTimeout(l)
    \/ \E l \in Listeners : Keepalive(l)
    \/ \E l \in Listeners : Disconnect(l)
    \/ \E l \in Listeners, d \in Deployments : Unsubscribe(l, d)

LogSpec == LogInit /\ [][LogNext]_vars

\* The loop runs the callbacks it was handed, resumes a client whose queue
\* has a message, and a send_text that does not raise returns.
LogLive ==
    /\ LogSpec
    /\ WF_vars(Broadcast)
    /\ \A l \in Listeners : WF_vars(Get(l) \/ Send(l) \/ Keepalive(l))

\* ---- claims on log streaming

\* The messages handed to the loop for an id and not yet broadcast.
Pending(deployment_id) ==
    LET callbacks == SelectSeq(ready, LAMBDA c : c[1] = deployment_id)
    IN  [i \in 1..Len(callbacks) |-> callbacks[i][2]]

\* What a client has, and what is on its way to it, oldest first.
Stream(l) ==
    listener[l].sent \o listener[l].message \o listener[l].queue
        \o Pending(listener[l].deployment_id)

From(s, n) == SubSeq(s, n + 1, Len(s))

\* What a client was sent and what is on its way to it is, in order, the
\* messages logged for its deployment from some message on that is not
\* later than the first one logged after it connected.
InOrder(l) ==
    \E k \in 0..listener[l].missed :
        Stream(l) = From(published[listener[l].deployment_id], k)

\* Nothing is on its way to the client any more.
AllSent(l) ==
    /\ listener[l].message = <<>>
    /\ listener[l].queue = <<>>
    /\ Pending(listener[l].deployment_id) = <<>>

\* C22: a client that connected before messages were logged for its
\* deployment, and stays connected, is sent all of them, each once and in
\* the order they were logged, whether they were logged on the loop's
\* thread or on a worker thread.
C22_ReceivesAllInOrder ==
    /\ [](\A l \in Listeners : Connected(l) => InOrder(l))
    /\ \A l \in Listeners : []<>(~Connected(l) \/ AllSent(l))

C22_Witness ==
    \E l \in Listeners :
        /\ Connected(l)
        /\ listener[l].missed = 0
        /\ Len(listener[l].sent) = MaxMessages
        /\ {listener[l].sent[i][2] : i \in 1..MaxMessages} = Threads

Unconsumed(l) ==
    /\ Connected(l)
    /\ listener[l].sent = <<>>
    /\ listener[l].message = <<>>
    /\ Pending(listener[l].deployment_id) = <<>>

LoggedSince(l) == From(published[listener[l].deployment_id], listener[l].missed)

Last(s, n) == SubSeq(s, Len(s) - n + 1, Len(s))

\* C23: the queue of a client has a capacity; when more messages than the
\* capacity were logged before the client consumed any, the queue holds
\* the most recent of them, as many as the capacity.
C23_QueueBounded ==
    \E capacity \in 1..(MaxMessages - 1) :
        \A l \in Listeners :
            /\ Len(listener[l].queue) <= capacity
            /\ (Unconsumed(l) /\ Len(LoggedSince(l)) > capacity) =>
                  listener[l].queue = Last(LoggedSince(l), capacity)

\* The queue of l can take a message.
HasRoom(l) == maxsize = 0 \/ Len(listener[l].queue) < maxsize

\* A broadcast puts the message on the queue of every client of the
\* deployment that has room, whatever the queues of the other clients hold.
DeliversToAll ==
    \A l \in Listeners :
        (/\ ready # <<>>
         /\ ready' = Tail(ready)
         /\ Connected(l)
         /\ listener[l].deployment_id = Head(ready)[1]
         /\ HasRoom(l)) =>
            listener'[l].queue = Append(listener[l].queue, Head(ready)[2])

\* A message can be logged and a broadcast can run in every state.
NeverBlocks ==
    /\ Logged < MaxMessages =>
          \A d \in Deployments, thread \in Threads : ENABLED Log(d, thread)
    /\ ready # <<>> => ENABLED Broadcast

\* C24: logging a message never blocks, and a client that does not consume
\* does not keep a message from the other clients of the deployment.
C24_PublishNeverBlocks ==
    /\ []NeverBlocks
    /\ [][DeliversToAll]_vars

C24_Witness ==
    \E l, k \in Listeners :
        /\ l # k
        /\ Connected(l) /\ Connected(k)
        /\ listener[l].deployment_id = listener[k].deployment_id
        /\ listener[l].sent = <<>> /\ Len(listener[l].queue) = MaxMessages
        /\ Len(listener[k].sent) = MaxMessages

\* C25: the registry holds, under each deployment id, exactly the queues
\* of the clients connected for it, and no id with an empty set: connecting
\* registers a queue, disconnecting removes it, unsubscribing a queue that
\* is not registered and logging for a deployment without clients leave
\* the registry as it was.
C25_RegistryExact ==
    /\ \A d \in Deployments :
          registered(subscribers, d) =
              {l \in Listeners : Connected(l) /\ listener[l].deployment_id = d}
    /\ \A d \in DOMAIN subscribers : subscribers[d] # {}
    /\ DOMAIN subscribers \subseteq Deployments

C25_Witness ==
    \E l, k \in Listeners :
        /\ listener[l].pc = "closed" /\ Connected(k)
        /\ listener[l].deployment_id # listener[k].deployment_id
        /\ DOMAIN subscribers = {listener[k].deployment_id}
        /\ published[listener[l].deployment_id] # <<>>
        /\ ready = <<>>

\* The loop of client l has ended.
Closed(l) == listener[l].pc = "closed"
Attached(l) == \E d \in DOMAIN subscribers : l \in subscribers[d]

\* C33: however the loop of a client ends (send_text of a message raises
\* because the client disconnected or for another error, or the keepalive
\* frame cannot be sent after an idle timeout), its queue is under no id of
\* the registry from then on; an idle timeout whose keepalive frame is sent
\* leaves the queue registered under the client's id.
C33_EveryExitDetaches ==
    /\ [](\A l \in Listeners : Closed(l) => ~Attached(l))
    /\ [][\A l \in Listeners :
            (listener[l].pc = "keepalive" /\ ~(listener'[l].pc = "closed")) =>
                /\ listener'[l].pc \in {"keepalive", "waiting"}
                /\ l \in subscribers'[listener[l].deployment_id]]_vars

\* One client was closed while a message was being sent to it, the other
\* when its keepalive frame could not be sent, after a message had reached
\* it; the registry is empty.
C33_Witness ==
    \E l, k \in Listeners :
        /\ Closed(l) /\ listener[l].message # <<>>
        /\ Closed(k) /\ listener[k].message = <<>> /\ listener[k].sent # <<>>
        /\ subscribers = <<>>

\* ============================================================ the watchdog
\*
\* The watchdog task alone, over a collection whose running deployments
\* belong to runs that are suspended in a handler and stay so.  Here the
\* persistence layer can raise inside a cycle.

\* A run that has gone through its first `returned` handlers and is
\* suspended in the next one.
RECURSIVE SuspendedAfter(_)
SuspendedAfter(returned) ==
    IF returned = 0
    THEN StartRun([doc |-> create_deployment, r |-> NoRun], TRUE)
    ELSE RunLoop(CompleteStep(SuspendedAfter(returned - 1), NoUrl), TRUE)

\* The documents of the collection: queued, or running at one of the first
\* steps.
StoredDocs == {create_deployment} \cup {SuspendedAfter(k).doc : k \in 0..2}

WatchInit ==
    /\ phase = "serving"
    /\ db \in [Deployments -> StoredDocs]
    /\ run = [d \in Deployments |-> NoRun]
    /\ records = <<>>
    /\ resources = {}
    /\ url_map = InitialUrlMap(<<>>)
    /\ task = [d \in Deployments |-> NoTask]
    /\ settings = DefaultSettings
    /\ wait = NoWait
    /\ subscribers = <<>>
    /\ ready = <<>>
    /\ listener = [l \in Listeners |-> NoListener]
    /\ published = [d \in Deployments |-> <<>>]
    /\ watchdog = NoWatchdog
    /\ logs = {}
    /\ deletion = [d \in Deployments |-> "none"]

\* Time passes while the watchdog sleeps.
Elapse ==
    /\ \E d \in DOMAIN db : db[d].started_at # NoTime /\ Age(db[d].started_at) < ClockCap
    /\ db' = [d \in DOMAIN db |-> [db[d] EXCEPT !.started_at = Older(@)]]
    /\ UNCHANGED <<phase, run>>
    /\ UNCHANGED <<infraVars, wait, logVars, watchVars, purgeVars>>

\* Fault: a watchdog whose loop has the try around it, not inside it.
WatchdogRaises_ends ==
    /\ phase = "serving"
    /\ watchdog.pc = "sleeping"
    /\ watchdog.errors < MaxWatchdogErrors
    /\ \E ds \in processed_before_error(db) :
        db' = [d \in DOMAIN db |-> IF d \in ds THEN watchdog_doc(db[d]) ELSE db[d]]
    /\ watchdog' = [pc |-> "ended", errors |-> watchdog.errors + 1]
    /\ UNCHANGED <<phase, run>>
    /\ UNCHANGED <<infraVars, wait, logVars, purgeVars>>
\* One cycle of _stale_deployment_watchdog in which SessionLocal, the query
\* or an update raises: the except clause inside the loop logs the error
\* and the task goes back to sleep.
WatchdogRaises ==
    /\ phase = "serving"
    /\ watchdog.pc = "sleeping"
    /\ watchdog.errors < MaxWatchdogErrors
    /\ \E ds \in processed_before_error(db) :
        db' = [d \in DOMAIN db |-> IF d \in ds THEN watchdog_doc(db[d]) ELSE db[d]]
    /\ watchdog' = [watchdog EXCEPT !.errors = @ + 1]
    /\ UNCHANGED <<phase, run>>
    /\ UNCHANGED <<infraVars, wait, logVars, purgeVars>>

WatchNext ==
    \/ Elapse
    \/ WatchdogCycle
    \/ WatchdogRaises

WatchSpec == WatchInit /\ [][WatchNext]_vars

\* The sleep of the watchdog returns, and the persistence layer does not
\* fail for ever: of the cycles that find a deployment to fail, one runs to
\* its end.
WatchLive == WatchSpec /\ WF_vars(WatchdogCycle)

\* ---- claims on the watchdog's errors

\* The watchdog has failed deployment d.
Examined(d) == db[d].status = FAILED /\ db[d].error_message.kind = "watchdog"

\* C40: an error raised in a watchdog cycle does not end the watchdog: the
\* task sleeps again, and a deployment that is running past the ceiling is
\* failed by a later cycle.
C40_WatchdogSurvivesErrors ==
    /\ [](watchdog.pc = "sleeping")
    /\ \A d \in Deployments : Stale(d) ~> Examined(d)

\* The watchdog has logged an error and is asleep; since then or before it
\* has failed one deployment, and the other is still running past the
\* ceiling.
C40_Witness ==
    /\ watchdog.errors >= 1
    /\ watchdog.pc = "sleeping"
    /\ \E d, e \in Deployments : Examined(d) /\ Stale(e)

\* ================================================ deletion during a run
\*
\* The deletion route (api/routes/deployments.py) and the runs of the
\* deployments it deletes, on the one event loop: the route is suspended
\* only in the teardown of the provisioner, a run only in a handler.  A
\* document of the deployments collection can be gone when a run writes:
\* update_step_status returns without writing, update() of
\* update_deployment_status raises NotFound, and add_log adds its entry to
\* the logs collection, which never looks at the deployments collection.

\* crud.add_log
add_log(ls, deployment_id) == ls \cup {deployment_id}

\* crud.delete_deployment: the entries of the id in the logs collection.
delete_logs(ls, deployment_id) == ls \ {deployment_id}

\* update_deployment_status raises NotFound in the run: the update of the
\* catch-all raises it again, the finally clause runs, and the exception
\* leaves the task.
Unrecorded(r) ==
    [r EXCEPT !.pc = "done", !.timer = NoTime, !.cleaned = @ + 1, !.outcome = "raised"]

\* Every deployment id has been submitted: its document is stored and its
\* run is scheduled.
PurgeInit ==
    /\ phase = "serving"
    /\ db = [d \in Deployments |-> create_deployment]
    /\ run = [d \in Deployments |-> [NoRun EXCEPT !.pc = "created"]]
    /\ records = <<>>
    /\ resources = {}
    /\ url_map = InitialUrlMap(<<>>)
    /\ task = [d \in Deployments |-> NoTask]
    /\ settings = DefaultSettings
    /\ wait = NoWait
    /\ subscribers = <<>>
    /\ ready = <<>>
    /\ listener = [l \in Listeners |-> NoListener]
    /\ published = [d \in Deployments |-> <<>>]
    /\ watchdog = NoWatchdog
    /\ logs = {}
    /\ deletion = [d \in Deployments |-> "none"]

\* The task of run d starts.  With its document it goes to the first await
\* of a handler, and _execute_step has added a log entry; without it the
\* first update raises.
RunStarts(d) ==
    /\ run[d].pc = "created"
    /\ IF d \in DOMAIN db
       THEN /\ Store(d, StartRun([doc |-> db[d], r |-> run[d]], TRUE))
            /\ logs' = add_log(logs, d)
       ELSE /\ run' = [run EXCEPT ![d] = Unrecorded(@)]
            /\ UNCHANGED <<db, logs>>
    /\ UNCHANGED <<phase, deletion>>
    /\ UNCHANGED <<infraVars, wait, logVars, watchVars>>

\* The handler run d is suspended in returns: _execute_step records the
\* step completed and adds a log entry; the loop goes on, and the next
\* update_deployment_status raises when the document is gone.
HandlerReturned(d) ==
    /\ run[d].pc = "handler"
    /\ IF d \in DOMAIN db
       THEN \E recipients \in BOOLEAN, delivered \in BOOLEAN :
              LET r1 == [run[d] EXCEPT !.outcome =
                            IF @ = "called"
                            THEN (IF delivered THEN "sent" ELSE "failed") ELSE @]
              IN  /\ (run[d].outcome # "called") => delivered
                  /\ (StepOf(run[d]) # "UPLOAD") => recipients
                  /\ Store(d, RunLoop(CompleteStep([doc |-> db[d], r |-> r1],
                                                   ResultUrl(d)), recipients))
       ELSE /\ run' = [run EXCEPT ![d] = Unrecorded(@)]
            /\ UNCHANGED db
    /\ logs' = add_log(logs, d)
    /\ UNCHANGED <<phase, deletion>>
    /\ UNCHANGED <<infraVars, wait, logVars, watchVars>>

\* The handler run d is suspended in raises: the except clause of the loop
\* adds a log entry, records the step failed and stores the error text,
\* which raises when the document is gone.
HandlerRaised(d) ==
    /\ run[d].pc = "handler"
    /\ MayRaise(StepOf(run[d]))
    /\ IF d \in DOMAIN db
       THEN \E recipients \in BOOLEAN :
              Store(d, RunLoop(FailStep([doc |-> db[d], r |-> run[d]]), recipients))
       ELSE /\ run' = [run EXCEPT ![d] = Unrecorded(@)]
            /\ UNCHANGED db
    /\ logs' = add_log(logs, d)
    /\ UNCHANGED <<phase, deletion>>
    /\ UNCHANGED <<infraVars, wait, logVars, watchVars>>

\* routes.deployments.delete_deployment up to its first suspension: the
\* record is found; a Demo or Cloud Run deployment awaits the teardown, a
\* Prod deployment goes on to crud.delete_deployment at once.
DeleteRequest(d) ==
    /\ deletion[d] = "none"
    /\ d \in DOMAIN db
    /\ \E teardown \in BOOLEAN :
        IF teardown
        THEN /\ deletion' = [deletion EXCEPT ![d] = "teardown"]
             /\ UNCHANGED <<db, logs>>
        ELSE /\ deletion' = [deletion EXCEPT ![d] = "deleted"]
             /\ logs' = delete_logs(logs, d)
             /\ db' = delete_deployment(db, d)
    /\ UNCHANGED <<phase, run>>
    /\ UNCHANGED <<infraVars, wait, logVars, watchVars>>

\* The teardown has returned or raised: crud.delete_deployment deletes the
\* log entries of the id and then the document, and the route answers.
DeleteRecord(d) ==
    /\ deletion[d] = "teardown"
    /\ deletion' = [deletion EXCEPT ![d] = "deleted"]
    /\ IF d \in DOMAIN db
       THEN /\ logs' = delete_logs(logs, d)
            /\ db' = delete_deployment(db, d)
       ELSE UNCHANGED <<db, logs>>
    /\ UNCHANGED <<phase, run>>
    /\ UNCHANGED <<infraVars, wait, logVars, watchVars>>

PurgeNext ==
    \/ \E d \in Deployments : RunStarts(d)
    \/ \E d \in Deployments : HandlerReturned(d)
    \/ \E d \in Deployments : HandlerRaised(d)
    \/ \E d \in Deployments : DeleteRequest(d)
    \/ \E d \in Deployments : DeleteRecord(d)

PurgeSpec == PurgeInit /\ [][PurgeNext]_vars

\* ---- claims on deletion during a run

\* C38: once the deletion request for a deployment has been answered, the
\* deployments collection holds no document of the id and the logs
\* collection no entry of it, whether or not its run was in progress.
C38_DeletedLeavesNothing ==
    \A d \in Deployments :
        deletion[d] = "deleted" => d \notin DOMAIN db /\ d \notin logs

====
